---------------------------- MODULE Spec2Model ----------------------------
(***************************************************************************)
(* Model of the MCP client stdio transport (crates/mcp-client/src/         *)
(* transport/mod.rs and stdio.rs): the pending-request table, the          *)
(* transport handle's send, and the actor with its writer, reader and      *)
(* process-wait race followed by cleanup; and of the MCP server            *)
(* (crates/mcp-server/src/lib.rs, server.rs, context.rs): the byte         *)
(* transport's frame stream, the request loop, the tool router and the     *)
(* typed context.                                                          *)
(*                                                                         *)
(* Specifications (they share the variables):                              *)
(*   SpecPending    concurrent callers of insert / respond / clear on one  *)
(*                  PendingRequests table;                                 *)
(*   Spec           callers, queue, writer, reader, child process, actor;  *)
(*   FairSpec       Spec with the fairness the tokio scheduler provides;   *)
(*   SpecReader     the actor's reader alone over the lines the child has  *)
(*                  written and a table of waiters;                        *)
(*   SpecQueue      callers, queue, writer and reader with a child that    *)
(*                  keeps running, from a state in which the queue already *)
(*                  holds an envelope, so that the queue fills;            *)
(*   SpecTransport  ByteTransport polled over a reader that delivers the   *)
(*                  peer's lines whole or in two reads;                    *)
(*   SpecServer     Server::run over that transport and a service that     *)
(*                  returns; FairSpecServer adds the scheduler's fairness; *)
(*   SpecTools      Server::run with the router of an MCPServer as its     *)
(*                  service;                                               *)
(*   SpecContext    a Context that is built and then read;                 *)
(*   SpecCounter    the tools of the counter server called in sequence on  *)
(*                  the Counter they share;                                *)
(*   SpecCalculator the calculator tool applied to its arguments.          *)
(***************************************************************************)
EXTENDS Integers, Sequences, FiniteSets, TLC

\* ----------------------------------------------------------------- bounds
\* oneshot channels that exist at the same time
MaxSlots == 2
\* sends that are started, all callers together
MaxSends == 2
\* lines the child's stdout pipe holds before the child has to wait
PipeCap == 1
\* capacity of the outbound queue; stdio.rs:275 uses 32, scaled down to the
\* number of sends so that the queue fills
QueueCap == 2

Callers == {"c1", "c2"}
Ids == {1, 2}
\* payloads that tell two outcomes for the same id apart
Tags == {"a", "b"}

\* ------------------------------------------------------------ value types
\* Option<oneshot::Sender<..>>: None, or the index of a channel
NoSlot == 0
Slot == 1..MaxSlots

\* Result<Option<JsonRpcResponse>, Error> and Result<JsonRpcResponse, Error>
\* as one record shape: t is the variant, id/tag identify a response, text
\* is the message of a StdioProcessError.
Res(t, id, tag, text) == [t |-> t, id |-> id, tag |-> tag, text |-> text]
NoRes == Res("none", 0, "", "")
OkSome(id, tag) == Res("Ok", id, tag, "")
OkNone == Res("OkNone", 0, "", "")
ChannelClosed == Res("ChannelClosed", 0, "", "")
Serialization == Res("Serialization", 0, "", "")
StdioProcessError(text) == Res("StdioProcessError", 0, "", text)

VARIABLES
    requests,   \* PendingRequests.requests: id -> slot (oneshot::Sender) or NoSlot
    slots,      \* the oneshot channels
    tp,         \* SpecPending: the table operation each caller has in progress
    tlast,      \* history: the table operation applied last (SpecPending), the
                \* reader's last discard of a response whose waiter is gone (Spec)
    pc, msg, result, cslot, handle, ret,  \* callers of StdioTransportHandle::send
    nsent,                                \* sends started so far
    hist,                                 \* history of each caller's send in progress
    queue, rxOpen,                        \* mpsc channel of TransportMessage
    w_pc, cur,                            \* handle_outgoing_messages
    a_pc,                                 \* StdioActor::run
    child, stdout,                        \* the child process and its stdout pipe
    stderr_text,                          \* what read_to_end got from its stderr
    errq,                                 \* failure channel (capacity 1)
    input,      \* server: lines the peer has still to write to the reader
    reader,     \* ByteTransport.reader and the byte source under it
    items,      \* history: the items poll_next has yielded, and the end
    run,        \* Server::run: position, request in hand, response, result
    out,        \* ByteTransport.writer: the lines written so far
    calls,      \* history: the requests the service was called with
    mcp,        \* MCPServer: which implementation, its tools table
    ctx         \* Context.map and the history of its construction and reads

vars == <<requests, slots, tp, tlast, pc, msg, result, cslot, handle, ret, nsent, hist,
          queue, rxOpen, w_pc, cur, a_pc, child, stdout, stderr_text, errq,
          input, reader, items, run, out, calls, mcp, ctx>>

\* ------------------------------------------------------ oneshot channels
\* st: "unused" | "open" (sender alive, nothing sent) | "value" (a value was
\* sent and the receiver was alive) | "closed" (sender gone, no value);
\* rx: the receiver half is alive; n: number of values sent on it; by: what
\* consumed the sender ("respond", "writer", or where it was dropped).
NewSlot(id) == [id |-> id, st |-> "open", val |-> NoRes, rx |-> TRUE, n |-> 0, by |-> ""]
UnusedSlot == [id |-> 0, st |-> "unused", val |-> NoRes, rx |-> FALSE, n |-> 0, by |-> ""]
FreeSlots == {s \in Slot : slots[s].st = "unused"}
FirstFree == CHOOSE s \in FreeSlots : \A x \in FreeSlots : s <= x

\* a channel whose two halves are gone and that no send in progress refers
\* to no longer exists; its index is free for the next channel
Reclaim(sl, owned) ==
    [s \in Slot |->
        IF sl[s].st \in {"value", "closed"} /\ ~sl[s].rx /\ s \notin owned
        THEN UnusedSlot ELSE sl[s]]

\* oneshot::Sender dropped without a send
DropTx(sl, s, by) ==
    IF s \in Slot /\ sl[s].st = "open"
    THEN [sl EXCEPT ![s].st = "closed", ![s].by = by] ELSE sl

\* mutant: the Sender is dropped and the value with it
SendTx_dropped(sl, s, v, by) ==
    [sl EXCEPT ![s].st = "closed", ![s].by = by]

\* oneshot::Sender::send(v): delivered iff the receiver is still alive
SendTx(sl, s, v, by) ==
    IF sl[s].rx
    THEN [sl EXCEPT ![s].st = "value", ![s].val = v, ![s].n = @ + 1, ![s].by = by]
    ELSE [sl EXCEPT ![s].st = "closed", ![s].n = @ + 1, ![s].by = by]

\* ------------------------------------------------------- PendingRequests
EmptyTable == [i \in Ids |-> NoSlot]

\* mutant: the entry of an id already present is kept (entry-or-insert)
insert_keep_old(req, sl, id, s) ==
    IF req[id] # NoSlot
    THEN [requests |-> req, slots |-> DropTx(sl, s, "insert")]
    ELSE [requests |-> [req EXCEPT ![id] = s], slots |-> sl]

\* mutant: nothing is registered, the Sender is dropped
insert_none(req, sl, id, s) ==
    [requests |-> req, slots |-> DropTx(sl, s, "insert")]

\* HashMap::insert: replaces the entry, the replaced Sender is dropped
insert(req, sl, id, s) ==
    [requests |-> [req EXCEPT ![id] = s],
     slots |-> IF req[id] # NoSlot THEN DropTx(sl, req[id], "insert") ELSE sl]

\* mutant: the entry is read but not removed (get instead of remove)
respond_no_remove(req, sl, id, response) ==
    IF req[id] # NoSlot
    THEN [requests |-> req, slots |-> SendTx(sl, req[id], response, "respond")]
    ELSE [requests |-> req, slots |-> sl]

\* mutant: an absent id completes some other waiter
respond_any(req, sl, id, response) ==
    IF req[id] # NoSlot
    THEN [requests |-> [req EXCEPT ![id] = NoSlot],
          slots |-> SendTx(sl, req[id], response, "respond")]
    ELSE IF \E j \in Ids : req[j] # NoSlot
         THEN LET j == CHOOSE j \in Ids : req[j] # NoSlot
              IN [requests |-> [req EXCEPT ![j] = NoSlot],
                  slots |-> SendTx(sl, req[j], response, "respond")]
         ELSE [requests |-> req, slots |-> sl]

\* mutant: the entry is removed and its Sender dropped without a send
respond_drop(req, sl, id, response) ==
    IF req[id] # NoSlot
    THEN [requests |-> [req EXCEPT ![id] = NoSlot],
          slots |-> DropTx(sl, req[id], "respond")]
    ELSE [requests |-> req, slots |-> sl]

\* mutant: an entry whose waiter is gone is left in the table
respond_live_only(req, sl, id, response) ==
    IF req[id] # NoSlot /\ sl[req[id]].rx
    THEN [requests |-> [req EXCEPT ![id] = NoSlot],
          slots |-> SendTx(sl, req[id], response, "respond")]
    ELSE [requests |-> req, slots |-> sl]

\* HashMap::remove, then Sender::send on the removed entry
respond(req, sl, id, response) ==
    IF req[id] # NoSlot
    THEN [requests |-> [req EXCEPT ![id] = NoSlot],
          slots |-> SendTx(sl, req[id], response, "respond")]
    ELSE [requests |-> req, slots |-> sl]

\* mutant: the table is emptied but its Senders are kept alive
clear_keep_senders(req, sl) == [requests |-> EmptyTable, slots |-> sl]

\* HashMap::clear: every Sender in the table is dropped
clear(req, sl) ==
    [requests |-> EmptyTable,
     slots |-> [s \in Slot |->
                  IF (\E i \in Ids : req[i] = s) /\ sl[s].st = "open"
                  THEN [sl[s] EXCEPT !.st = "closed", !.by = "clear"] ELSE sl[s]]]

\* ---------------------------------------------------------- initial state
IdleOp == [op |-> "idle", id |-> 0, slot |-> NoSlot, out |-> NoRes]
NoMsg == [kind |-> "none", id |-> 0, ser |-> TRUE]
\* TransportMessage; from, seq and live are history: the caller that sent it,
\* the number of the send, and whether that send is still in progress
NoEnv == [message |-> NoMsg, response_tx |-> NoSlot, from |-> "", seq |-> 0,
          live |-> FALSE]
\* history of a caller's latest send.  enq: "no", "select" (enqueued while the
\* actor was in its select) or "late"; written: the writer wrote it to child
\* stdin; answered: the child afterwards wrote a response carrying its id;
\* atexit: the send was waiting, its slot open, when the child exited;
\* afterexit: the send was started after the child had exited
NoHist == [enq |-> "no", written |-> FALSE, answered |-> FALSE, atexit |-> FALSE,
           afterexit |-> FALSE]

ClientInit ==
    /\ requests = EmptyTable
    /\ slots = [s \in Slot |-> UnusedSlot]
    /\ tp = [c \in Callers |-> IdleOp]
    /\ tlast = [op |-> "none", id |-> 0, hit |-> FALSE]
    /\ pc = [c \in Callers |-> "idle"]
    /\ msg = [c \in Callers |-> NoMsg]
    /\ result = [c \in Callers |-> NoRes]
    /\ cslot = [c \in Callers |-> NoSlot]
    /\ handle = TRUE
    /\ nsent = 0
    /\ ret = [c \in Callers |-> NoRes]
    /\ hist = [c \in Callers |-> NoHist]
    /\ queue = <<>>
    /\ rxOpen = TRUE
    /\ w_pc = "recv"
    /\ cur = NoEnv
    /\ a_pc = "select"
    /\ child = "alive"
    /\ stdout = <<>>
    /\ stderr_text = ""
    /\ errq = <<>>

\* the server side is absent from the client specifications
ServerUnused ==
    /\ input = <<>>
    /\ reader = [avail |-> <<>>, next |-> 1, half |-> FALSE]
    /\ items = [seq |-> <<>>, ended |-> FALSE]
    /\ run = [pc |-> "unused"]
    /\ out = <<>>
    /\ calls = <<>>
    /\ mcp = [impl |-> "none"]
    /\ ctx = [map |-> <<>>, built |-> FALSE, log |-> <<>>, got |-> <<>>]

Init == ClientInit /\ ServerUnused

\* ============================ SpecPending ================================
\* Concurrent callers of one PendingRequests table.  A caller first issues
\* an operation, which then takes effect at the moment it holds the RwLock's
\* write guard; operations issued concurrently take effect in any order.
\* Waiters hold the receiving halves of the channels.

\* a caller starts insert(id, sender) with a fresh oneshot channel
TCallInsert(c) ==
    /\ tp[c].op = "idle" /\ FreeSlots # {}
    /\ \E i \in Ids :
         /\ slots' = [slots EXCEPT ![FirstFree] = NewSlot(i)]
         /\ tp' = [tp EXCEPT ![c] = [op |-> "insert", id |-> i, slot |-> FirstFree,
                                     out |-> NoRes]]
    /\ UNCHANGED <<requests, tlast, pc, msg, result, cslot, handle, ret, nsent, hist,
                   queue, rxOpen, w_pc, cur, a_pc, child, stdout, stderr_text, errq,
                   input, reader, items, run, out, calls, mcp, ctx>>

\* a caller starts respond(id, outcome)
TCallRespond(c) ==
    /\ tp[c].op = "idle"
    /\ \E i \in Ids, g \in Tags :
         tp' = [tp EXCEPT ![c] = [op |-> "respond", id |-> i, slot |-> NoSlot,
                                  out |-> OkSome(i, g)]]
    /\ UNCHANGED <<requests, slots, tlast, pc, msg, result, cslot, handle, ret, nsent,
                   hist, queue, rxOpen, w_pc, cur, a_pc, child, stdout, stderr_text,
                   errq, input, reader, items, run, out, calls, mcp, ctx>>

\* a caller starts clear()
TCallClear(c) ==
    /\ tp[c].op = "idle"
    /\ tp' = [tp EXCEPT ![c] = [op |-> "clear", id |-> 0, slot |-> NoSlot, out |-> NoRes]]
    /\ UNCHANGED <<requests, slots, tlast, pc, msg, result, cslot, handle, ret, nsent,
                   hist, queue, rxOpen, w_pc, cur, a_pc, child, stdout, stderr_text,
                   errq, input, reader, items, run, out, calls, mcp, ctx>>

\* self.requests.write().await, the body under the guard, the guard dropped:
\* the guard is exclusive and never held across an await, so the body of
\* each operation is one step
TApply(c) ==
    /\ tp[c].op # "idle"
    /\ LET r == CASE tp[c].op = "insert" -> insert(requests, slots, tp[c].id, tp[c].slot)
                  [] tp[c].op = "respond" -> respond(requests, slots, tp[c].id, tp[c].out)
                  [] OTHER -> clear(requests, slots)
       IN /\ requests' = r.requests
          /\ slots' = Reclaim(r.slots, {})
    /\ tp' = [tp EXCEPT ![c] = IdleOp]
    /\ tlast' = [op |-> tp[c].op, id |-> tp[c].id,
                 hit |-> tp[c].id \in Ids /\ requests[tp[c].id] # NoSlot]
    /\ UNCHANGED <<pc, msg, result, cslot, handle, ret, nsent, hist, queue, rxOpen,
                   w_pc, cur, a_pc, child, stdout, stderr_text, errq, input, reader,
                   items, run, out, calls, mcp, ctx>>

\* a waiter drops its oneshot::Receiver before any result arrived
TAbandon ==
    /\ \E s \in Slot :
         /\ slots[s].st = "open" /\ slots[s].rx
         /\ slots' = [slots EXCEPT ![s].rx = FALSE]
    /\ UNCHANGED <<requests, tp, tlast, pc, msg, result, cslot, handle, ret, nsent,
                   hist, queue, rxOpen, w_pc, cur, a_pc, child, stdout, stderr_text,
                   errq, input, reader, items, run, out, calls, mcp, ctx>>

\* a waiter receives its result (the value or channel-closed)
TObserve ==
    /\ \E s \in Slot :
         /\ slots[s].st \in {"value", "closed"} /\ slots[s].rx
         /\ slots' = Reclaim([slots EXCEPT ![s].rx = FALSE], {})
    /\ UNCHANGED <<requests, tp, tlast, pc, msg, result, cslot, handle, ret, nsent,
                   hist, queue, rxOpen, w_pc, cur, a_pc, child, stdout, stderr_text,
                   errq, input, reader, items, run, out, calls, mcp, ctx>>

NextPending ==
    \/ \E c \in Callers :
        \/ TCallInsert(c)
        \/ TCallRespond(c)
        \/ TCallClear(c)
        \/ TApply(c)
    \/ TAbandon
    \/ TObserve

SpecPending == Init /\ [][NextPending]_vars

\* ----------------------------------------------- claims on SpecPending
InTable(s) == \E i \in Ids : requests[i] = s
InsertPending(s) == \E c \in Callers : tp[c].op = "insert" /\ tp[c].slot = s
Applying(c, op) == tp[c].op = op /\ tp'[c].op = "idle"

\* C2: under every interleaving of insert, respond and clear, a waiter whose
\* slot left the table has exactly one result: the outcome of the respond
\* that removed its slot, or channel-closed.  The result does not change
\* until the waiter has received it and no slot receives more than one value.
C2_OneResult ==
    /\ [](\A s \in Slot :
            /\ slots[s].n <= 1
            /\ (slots[s].st = "open" => (InTable(s) \/ InsertPending(s)))
            /\ (slots[s].st = "value" =>
                    slots[s].val.t = "Ok" /\ slots[s].val.id = slots[s].id))
    /\ [][\A s \in Slot :
            /\ (slots[s].st \in {"value", "closed"} =>
                    \/ slots'[s].st = slots[s].st /\ slots'[s].val = slots[s].val
                    \/ slots[s].rx /\ slots'[s] = UnusedSlot)
            /\ (slots[s].st = "open" /\ slots'[s].st = "value" =>
                    \E c \in Callers :
                        /\ Applying(c, "respond")
                        /\ requests[tp[c].id] = s
                        /\ slots'[s].val = tp[c].out)]_vars

\* two waiters, one completed by a respond and one closed by a clear
C2_Witness ==
    \E s1, s2 \in Slot :
        /\ slots[s1].st = "value" /\ slots[s1].rx /\ slots[s1].by = "respond"
        /\ slots[s2].st = "closed" /\ slots[s2].rx /\ slots[s2].by = "clear"

\* C8: insert for an id whose waiter is still outstanding closes the earlier
\* waiter, which never receives a response afterwards; the table then maps
\* the id to the new slot only, and a later respond(id) completes that slot
\* and no other.
C8_IdReuse ==
    /\ [][\A c \in Callers :
            Applying(c, "insert") /\ requests[tp[c].id] # NoSlot =>
                LET old == requests[tp[c].id] IN
                /\ old # tp[c].slot
                /\ slots'[old].st # "value"
                /\ (slots[old].rx => /\ slots'[old].st = "closed"
                                     /\ slots'[old].n = 0)
                /\ requests'[tp[c].id] = tp[c].slot
                /\ ~(\E i \in Ids : requests'[i] = old)
                /\ \A i \in Ids \ {tp[c].id} : requests'[i] = requests[i]]_vars
    /\ [][\A s \in Slot : slots[s].st = "closed" => slots'[s].st \in {"closed", "unused"}]_vars
    /\ [][\A c \in Callers :
            Applying(c, "respond") =>
                \A s \in Slot : s # requests[tp[c].id] => slots'[s] = slots[s]]_vars

\* the first waiter of an id was closed by the second insert and holds no
\* value; the second waiter of the same id has been completed by a respond
C8_Witness ==
    \E s1, s2 \in Slot :
        /\ s1 # s2 /\ slots[s1].id = slots[s2].id
        /\ slots[s1].st = "closed" /\ slots[s1].rx /\ slots[s1].by = "insert"
        /\ slots[s1].n = 0
        /\ slots[s2].st = "value" /\ slots[s2].by = "respond"

\* C9: respond for an id without an entry changes neither the table nor any
\* slot; respond for a present id removes that entry only and touches no
\* other slot.
C9_RespondFrame ==
    [][\A c \in Callers :
        Applying(c, "respond") =>
            IF requests[tp[c].id] = NoSlot
            THEN requests' = requests /\ slots' = slots
            ELSE /\ requests'[tp[c].id] = NoSlot
                 /\ \A i \in Ids \ {tp[c].id} : requests'[i] = requests[i]
                 /\ \A s \in Slot \ {requests[tp[c].id]} : slots'[s] = slots[s]]_vars

\* a respond for an absent id has just been applied while another id has a
\* waiter in the table
C9_Witness ==
    /\ tlast.op = "respond" /\ ~tlast.hit
    /\ \E i \in Ids : requests[i] # NoSlot /\ slots[requests[i]].st = "open"

\* ================================ Spec ===================================
\* The transport: callers of StdioTransportHandle::send, the bounded queue,
\* the actor's writer and reader, the child process, and the actor's cleanup.
\* An action runs from one suspension of its task to the next.  The lock of
\* the pending table is taken by the actor task alone and never held across
\* an await, so its write() is granted at once; the failure channel has room
\* for the single failure an actor sends; ChildStdin's flush is immediate.

\* the messages a caller may send: a Request of each id, a Notification,
\* and one Request that serde_json cannot serialize
Messages ==
    [kind : {"Request"}, id : Ids, ser : {TRUE}]
        \cup [kind : {"Notification"}, id : {0}, ser : {TRUE}]
        \cup {[kind |-> "Request", id |-> 1, ser |-> FALSE]}

Abandoned == Res("abandoned", 0, "", "")
\* the channels that sends in progress refer to
Owned(cs) == {cs[c] : c \in Callers} \ {NoSlot}
\* history: the envelopes of a send that is over are marked
EndSend(e, c) == IF e.from = c THEN [e EXCEPT !.live = FALSE] ELSE e
EndSendQ(q, c) == [k \in 1..Len(q) |-> EndSend(q[k], c)]

\* ---- StdioTransportHandle::send / send_message
\* send(message): for a Request, oneshot::channel() is created.  The callers
\* are interchangeable, so the one that sends first is called c1
send(c) ==
    /\ pc[c] = "idle" /\ handle /\ nsent < MaxSends
    /\ nsent = 0 => c = "c1"
    /\ nsent' = nsent + 1
    /\ \E m \in Messages :
         /\ m.kind = "Request" => FreeSlots # {}
         /\ msg' = [msg EXCEPT ![c] = m]
         /\ slots' = IF m.kind = "Request"
                     THEN [slots EXCEPT ![FirstFree] = NewSlot(m.id)]
                     ELSE slots
         /\ cslot' = [cslot EXCEPT ![c] = IF m.kind = "Request" THEN FirstFree ELSE NoSlot]
    /\ pc' = [pc EXCEPT ![c] = "enqueue"]
    /\ result' = [result EXCEPT ![c] = NoRes]
    /\ ret' = [ret EXCEPT ![c] = NoRes]
    /\ hist' = [hist EXCEPT ![c] = [NoHist EXCEPT !.afterexit = (child = "dead")]]
    /\ UNCHANGED <<requests, tp, tlast, handle, queue, rxOpen, w_pc, cur, a_pc, child,
                   stdout, stderr_text, errq, input, reader, items, run, out, calls,
                   mcp, ctx>>

\* mutant: the channel is unbounded
has_permit_always(q) == TRUE

\* mpsc::Sender::send waits for a permit: one per free place of the channel
has_permit(q) == Len(q) < QueueCap

\* sender.send(msg).await.map_err(|_| ChannelClosed)?
send_message_enqueue(c) ==
    /\ pc[c] = "enqueue"
    /\ LET s == cslot[c] IN
       IF ~rxOpen
       THEN \* the receiver is gone: the envelope and both channel halves are dropped
            /\ result' = [result EXCEPT ![c] = ChannelClosed]
            /\ slots' = IF s # NoSlot
                        THEN [slots EXCEPT ![s].st = "closed", ![s].rx = FALSE,
                                           ![s].by = "enqueue"]
                        ELSE slots
            /\ pc' = [pc EXCEPT ![c] = "check"]
            /\ UNCHANGED <<queue, hist>>
       ELSE /\ has_permit(queue)
            /\ queue' = Append(queue, [message |-> msg[c], response_tx |-> s,
                                       from |-> c, seq |-> nsent, live |-> TRUE])
            /\ hist' = [hist EXCEPT ![c].enq =
                           IF a_pc = "select" THEN "select" ELSE "late"]
            /\ result' = [result EXCEPT ![c] = IF s # NoSlot THEN NoRes ELSE OkNone]
            /\ pc' = [pc EXCEPT ![c] = IF s # NoSlot THEN "await" ELSE "check"]
            /\ slots' = slots
    /\ UNCHANGED <<requests, tp, tlast, msg, cslot, handle, ret, nsent, rxOpen, w_pc,
                   cur, a_pc, child, stdout, stderr_text, errq, input, reader, items,
                   run, out, calls, mcp, ctx>>

\* Ok(Some(response.await.map_err(|_| ChannelClosed)??))
send_message_await(c) ==
    /\ pc[c] = "await"
    /\ LET s == cslot[c] IN
         /\ slots[s].st \in {"value", "closed"}
         /\ result' = [result EXCEPT ![c] =
                          IF slots[s].st = "value" THEN slots[s].val ELSE ChannelClosed]
         /\ slots' = [slots EXCEPT ![s].rx = FALSE]
    /\ pc' = [pc EXCEPT ![c] = "check"]
    /\ UNCHANGED <<requests, tp, tlast, msg, cslot, handle, ret, nsent, hist, queue,
                   rxOpen, w_pc, cur, a_pc, child, stdout, stderr_text, errq, input,
                   reader, items, run, out, calls, mcp, ctx>>

\* mutant: the failure channel is polled only when send_message failed
check_for_errors_only_on_err(q, res) ==
    IF q # <<>> /\ res.t \notin {"Ok", "OkNone"}
    THEN [ret |-> Head(q), errq |-> Tail(q)]
    ELSE [ret |-> res, errq |-> q]

\* mutant: the poll leaves the failure in the channel
check_for_errors_peek(q, res) ==
    IF q # <<>>
    THEN [ret |-> Head(q), errq |-> q]
    ELSE [ret |-> res, errq |-> q]

\* self.check_for_errors().await?; result
check_for_errors(q, res) ==
    IF q # <<>>
    THEN [ret |-> Head(q), errq |-> Tail(q)]
    ELSE [ret |-> res, errq |-> q]

\* send returns
send_return(c) ==
    /\ pc[c] = "check"
    /\ LET r == check_for_errors(errq, result[c]) IN
         /\ ret' = [ret EXCEPT ![c] = r.ret]
         /\ errq' = r.errq
    /\ pc' = [pc EXCEPT ![c] = "idle"]
    /\ cslot' = [cslot EXCEPT ![c] = NoSlot]
    /\ slots' = Reclaim(slots, Owned(cslot'))
    /\ queue' = EndSendQ(queue, c)
    /\ cur' = EndSend(cur, c)
    /\ msg' = [msg EXCEPT ![c] = NoMsg]
    /\ hist' = [hist EXCEPT ![c] = NoHist]
    /\ UNCHANGED <<requests, tp, tlast, result, handle, nsent, rxOpen, w_pc, a_pc,
                   child, stdout, stderr_text, input, reader, items, run, out, calls,
                   mcp, ctx>>

\* the caller drops the future of a Request send while it waits for the response
abandon(c) ==
    /\ pc[c] = "await"
    /\ slots[cslot[c]].st = "open"
    /\ slots' = [slots EXCEPT ![cslot[c]].rx = FALSE]
    /\ ret' = [ret EXCEPT ![c] = Abandoned]
    /\ pc' = [pc EXCEPT ![c] = "idle"]
    /\ cslot' = [cslot EXCEPT ![c] = NoSlot]
    /\ queue' = EndSendQ(queue, c)
    /\ cur' = EndSend(cur, c)
    /\ msg' = [msg EXCEPT ![c] = NoMsg]
    /\ hist' = [hist EXCEPT ![c] = NoHist]
    /\ UNCHANGED <<requests, tp, tlast, result, handle, nsent, rxOpen, w_pc, a_pc,
                   child, stdout, stderr_text, errq, input, reader, items, run, out,
                   calls, mcp, ctx>>

\* the last clone of the handle is dropped (send borrows the handle, so no
\* send is in progress then)
drop_handle ==
    /\ handle /\ \A c \in Callers : pc[c] = "idle"
    /\ handle' = FALSE
    /\ UNCHANGED <<requests, slots, tp, tlast, pc, msg, result, cslot, ret, nsent,
                   hist, queue, rxOpen, w_pc, cur, a_pc, child, stdout, stderr_text,
                   errq, input, reader, items, run, out, calls, mcp, ctx>>

\* ---- StdioActor::handle_outgoing_messages (the writer)
\* mutant: the writer takes the most recently queued envelope
next_envelope_lifo(q) == [env |-> q[Len(q)], rest |-> SubSeq(q, 1, Len(q) - 1)]

\* receiver.recv(): the mpsc channel hands out envelopes in queue order
next_envelope(q) == [env |-> Head(q), rest |-> Tail(q)]

\* the select! of run() ends as soon as one of its branches completes
SelectEnds == a_pc' = "stderr"

\* mutant: the queued envelopes are leaked, their Senders stay alive
DropEnvelopes_leaked(sl, q) == sl

\* Senders held by envelopes that are dropped with the queue
DropEnvelopes(sl, q) ==
    [s \in Slot |->
        IF sl[s].st = "open" /\ \E k \in 1..Len(q) : q[k].response_tx = s
        THEN [sl[s] EXCEPT !.st = "closed", !.by = "drop"] ELSE sl[s]]

\* receiver.recv().await, serde_json::to_string, pending_requests.insert.
\* When the loop ends the writer's future completes and drops the receiver
\* it owns
handle_outgoing_recv ==
    /\ a_pc = "select" /\ w_pc = "recv"
    /\ IF queue # <<>>
       THEN LET n == next_envelope(queue)
                e == n.env
            IN /\ queue' = n.rest
               /\ a_pc' = a_pc
               /\ IF ~e.message.ser
                  THEN \* Err(e): the error goes to this envelope's slot; continue
                       /\ slots' = IF e.response_tx # NoSlot
                                   THEN Reclaim(SendTx(slots, e.response_tx, Serialization,
                                                       "writer"), Owned(cslot))
                                   ELSE slots
                       /\ UNCHANGED <<requests, cur, w_pc>>
                  ELSE LET r == IF e.response_tx = NoSlot
                                THEN [requests |-> requests, slots |-> slots]
                                ELSE IF e.message.kind = "Request"
                                THEN insert(requests, slots, e.message.id, e.response_tx)
                                ELSE [requests |-> requests,
                                      slots |-> DropTx(slots, e.response_tx, "writer")]
                       IN /\ requests' = r.requests
                          /\ slots' = Reclaim(r.slots, Owned(cslot))
                          /\ cur' = [e EXCEPT !.response_tx = NoSlot]
                          /\ w_pc' = "write"
       ELSE \* None: every sender is dropped, the loop and the writer end
            /\ ~handle
            /\ SelectEnds
            /\ rxOpen' = FALSE
            /\ UNCHANGED <<requests, slots, queue, cur, w_pc>>
    /\ queue # <<>> => rxOpen' = rxOpen
    /\ UNCHANGED <<tp, tlast, pc, msg, result, cslot, handle, ret, nsent, hist, child,
                   stdout, stderr_text, errq, input, reader, items, run, out, calls,
                   mcp, ctx>>

\* stdin.write_all(...).await and stdin.flush().await: an error (the child
\* closed its stdin) ends the loop; the writer's future completes and drops
\* the receiver it owns, and with it the envelopes still queued
handle_outgoing_write ==
    /\ a_pc = "select" /\ w_pc = "write"
    /\ IF child = "alive"
       THEN /\ hist' = IF cur.live THEN [hist EXCEPT ![cur.from].written = TRUE] ELSE hist
            /\ w_pc' = "recv"
            /\ a_pc' = a_pc
            /\ UNCHANGED <<rxOpen, queue, slots>>
       ELSE /\ SelectEnds
            /\ rxOpen' = FALSE
            /\ queue' = <<>>
            /\ slots' = Reclaim(DropEnvelopes(slots, queue), Owned(cslot))
            /\ UNCHANGED <<hist, w_pc>>
    /\ cur' = NoEnv
    /\ UNCHANGED <<requests, tp, tlast, pc, msg, result, cslot, handle, ret, nsent,
                   child, stdout, stderr_text, errq, input, reader, items, run, out,
                   calls, mcp, ctx>>

\* ---- StdioActor::handle_incoming_messages (the reader)
\* mutant: a line that is no response ends the reader
line_class_strict(l) ==
    CASE l.kind = "resp" -> "response"
      [] OTHER -> "error"

\* read_line fails on bytes that are not UTF-8; serde_json::from_str decides
\* whether the line is a JsonRpcResponse
line_class(l) ==
    CASE l.kind = "resp" -> "response"
      [] l.kind = "badutf8" -> "error"
      [] OTHER -> "skip"

\* mutant: the id is not taken from the response that was read
response_id_fixed(l) == 1

\* the id of Success { id, .. } or Error { id, .. }
response_id(l) == l.id

\* reader.read_line(&mut line).await, the parse, pending_requests.respond
handle_incoming_messages ==
    /\ a_pc = "select"
    /\ IF stdout # <<>>
       THEN LET l == Head(stdout) IN
            /\ stdout' = Tail(stdout)
            /\ CASE line_class(l) = "response" ->
                      LET r == respond(requests, slots, response_id(l),
                                       OkSome(l.id, l.tag))
                          s == requests[response_id(l)]
                      IN /\ requests' = r.requests
                         /\ slots' = Reclaim(r.slots, Owned(cslot))
                         /\ a_pc' = a_pc
                         /\ tlast' = IF s # NoSlot /\ ~slots[s].rx
                                     THEN [op |-> "discard", id |-> l.id, hit |-> TRUE]
                                     ELSE tlast
                 [] line_class(l) = "skip" ->
                      UNCHANGED <<requests, slots, a_pc, tlast>>
                 [] OTHER ->
                      /\ SelectEnds
                      /\ UNCHANGED <<requests, slots, tlast>>
       ELSE \* Ok(0): EOF once the child has closed its stdout
            /\ child # "alive"
            /\ SelectEnds
            /\ UNCHANGED <<requests, slots, stdout, tlast>>
    /\ UNCHANGED <<tp, pc, msg, result, cslot, handle, ret, nsent, hist, queue, rxOpen,
                   w_pc, cur, child, stderr_text, errq, input, reader, items, run, out,
                   calls, mcp, ctx>>

\* ---- StdioActor::run (the supervisor)
\* status = self._process.wait(): the child has exited
run_process_wait ==
    /\ a_pc = "select" /\ child = "dead"
    /\ SelectEnds
    /\ UNCHANGED <<requests, slots, tp, tlast, pc, msg, result, cslot, handle, ret,
                   nsent, hist, queue, rxOpen, w_pc, cur, child, stdout, stderr_text,
                   errq, input, reader, items, run, out, calls, mcp, ctx>>

\* mutant: the diagnostic is always the fixed text
err_msg_fixed(text) == "Process ended unexpectedly"

\* err_msg: the stderr text if any byte was read, else the fixed text
err_msg(text) == IF text # "" THEN text ELSE "Process ended unexpectedly"

\* self.stderr.read_to_end(..).await returns at EOF of the child's stderr,
\* which stays open while the child lives; what the child wrote there is
\* seen by the program at this point only, so it is chosen here.
\* Ok(bytes): the failure is sent on the failure channel (dropped if no
\* handle is left); Err: nothing is sent
run_read_stderr ==
    /\ a_pc = "stderr" /\ child = "dead"
    /\ \/ \E text \in {"", "boom"} :
            /\ stderr_text' = text
            /\ errq' = IF handle /\ Len(errq) < 1
                       THEN Append(errq, StdioProcessError(err_msg(text)))
                       ELSE errq
       \/ UNCHANGED <<stderr_text, errq>>
    /\ a_pc' = "clear"
    /\ UNCHANGED <<requests, slots, tp, tlast, pc, msg, result, cslot, handle, ret,
                   nsent, hist, queue, rxOpen, w_pc, cur, child, stdout, input, reader,
                   items, run, out, calls, mcp, ctx>>

\* mutant: cleanup goes on without clearing the table
run_clear_skipped ==
    /\ a_pc = "clear"
    /\ a_pc' = "drop"
    /\ UNCHANGED <<requests, slots, tp, tlast, pc, msg, result, cslot, handle, ret,
                   nsent, hist, queue, rxOpen, w_pc, cur, child, stdout, stderr_text,
                   errq, input, reader, items, run, out, calls, mcp, ctx>>

\* self.pending_requests.clear().await
run_clear ==
    /\ a_pc = "clear"
    /\ LET r == clear(requests, slots) IN
         /\ requests' = r.requests
         /\ slots' = Reclaim(r.slots, Owned(cslot))
    /\ a_pc' = "drop"
    /\ UNCHANGED <<tp, tlast, pc, msg, result, cslot, handle, ret, nsent, hist, queue,
                   rxOpen, w_pc, cur, child, stdout, stderr_text, errq, input, reader,
                   items, run, out, calls, mcp, ctx>>

\* run() returns: the suspended writer and reader are dropped, with them the
\* queue's receiver if the writer still owned it, then the actor and with it
\* the child (kill_on_drop)
run_return ==
    /\ a_pc = "drop"
    /\ slots' = Reclaim(DropEnvelopes(slots, queue), Owned(cslot))
    /\ queue' = <<>>
    /\ cur' = NoEnv
    /\ rxOpen' = FALSE
    /\ child' = "dead"
    /\ a_pc' = "returned"
    /\ UNCHANGED <<requests, tp, tlast, pc, msg, result, cslot, handle, ret, nsent,
                   hist, w_pc, stdout, stderr_text, errq, input, reader, items, run,
                   out, calls, mcp, ctx>>

\* ---- the child process (the peer; any behaviour)
ChildLines ==
    [kind : {"resp"}, id : Ids, tag : {"a"}]
        \cup [kind : {"other", "badutf8"}, id : {0}, tag : {""}]

\* the child writes a line to its stdout
child_write ==
    /\ child = "alive" /\ Len(stdout) < PipeCap
    /\ \E l \in ChildLines :
         /\ stdout' = Append(stdout, l)
         /\ hist' = [c \in Callers |->
                       IF /\ l.kind = "resp" /\ pc[c] = "await" /\ hist[c].written
                          /\ msg[c].id = l.id /\ a_pc = "select"
                       THEN [hist[c] EXCEPT !.answered = TRUE] ELSE hist[c]]
    /\ UNCHANGED <<requests, slots, tp, tlast, pc, msg, result, cslot, handle, ret,
                   nsent, queue, rxOpen, w_pc, cur, a_pc, child, stderr_text, errq,
                   input, reader, items, run, out, calls, mcp, ctx>>

\* the child closes its stdin and stdout and keeps running
child_close ==
    /\ child = "alive"
    /\ child' = "closed"
    /\ UNCHANGED <<requests, slots, tp, tlast, pc, msg, result, cslot, handle, ret,
                   nsent, hist, queue, rxOpen, w_pc, cur, a_pc, stdout, stderr_text,
                   errq, input, reader, items, run, out, calls, mcp, ctx>>

\* the child exits or is killed
child_exit ==
    /\ child \in {"alive", "closed"}
    /\ child' = "dead"
    /\ hist' = [c \in Callers |->
                  IF pc[c] = "await" /\ slots[cslot[c]].st = "open"
                  THEN [hist[c] EXCEPT !.atexit = TRUE] ELSE hist[c]]
    /\ UNCHANGED <<requests, slots, tp, tlast, pc, msg, result, cslot, handle, ret,
                   nsent, queue, rxOpen, w_pc, cur, a_pc, stdout, stderr_text, errq,
                   input, reader, items, run, out, calls, mcp, ctx>>

CallerStep(c) ==
    \/ send(c)
    \/ send_message_enqueue(c)
    \/ send_message_await(c)
    \/ send_return(c)
    \/ abandon(c)

Next ==
    \/ \E c \in Callers : CallerStep(c)
    \/ drop_handle
    \/ handle_outgoing_recv
    \/ handle_outgoing_write
    \/ handle_incoming_messages
    \/ run_process_wait
    \/ run_read_stderr
    \/ run_clear
    \/ run_return
    \/ child_write
    \/ child_close
    \/ child_exit

Spec == Init /\ [][Next]_vars

\* the tokio runtime polls every task that can make progress, and select!
\* completes as soon as one of its branches can; a caller that has not
\* dropped its future keeps polling it.  Nothing is assumed of the child.
\* The steps of one sequential activity exclude one another, so one
\* condition per activity is fairness for each of its steps.
writer == handle_outgoing_recv \/ handle_outgoing_write
supervisor == run_process_wait \/ run_read_stderr \/ run_clear \/ run_return
polled(c) == send_message_enqueue(c) \/ send_message_await(c) \/ send_return(c)

Fairness ==
    /\ WF_vars(writer)
    /\ WF_vars(handle_incoming_messages)
    /\ WF_vars(supervisor)
    /\ \A c \in Callers : WF_vars(polled(c))

FairSpec == Spec /\ Fairness

\* ------------------------------------------------------ claims on Spec
\* send of caller c returns in this step
Returns(c) == pc[c] = "check" /\ pc'[c] = "idle"
\* the failure send returns when one is queued at its poll
Polled == Head(errq)
\* the reader takes a response line in this step
ReadsResponse ==
    /\ a_pc = "select" /\ stdout # <<>> /\ stdout' = Tail(stdout)
    /\ Head(stdout).kind = "resp"

C3_IdMatch ==
    /\ [][\A c \in Callers :
            Returns(c) /\ ret'[c].t = "Ok" => ret'[c].id = msg[c].id]_vars
    /\ [][\A s \in Slot :
            slots[s].st = "open" /\ slots'[s].st = "value" /\ slots'[s].val.t = "Ok" =>
                /\ ReadsResponse
                /\ Head(stdout).id = slots[s].id
                /\ requests[slots[s].id] = s
                /\ slots'[s].val.id = slots[s].id]_vars

\* the request sent first is written and still waits for its response while
\* the request of the other id, sent later, has returned its response
C3_Witness ==
    /\ pc["c1"] = "await" /\ hist["c1"].written
    /\ slots[cslot["c1"]].st = "open"
    /\ pc["c2"] = "idle" /\ ret["c2"].t = "Ok" /\ ret["c2"].id # msg["c1"].id


\* C4 as stated: a Request send that was waiting for its response when the
\* child exited returns ChannelClosed or StdioProcessError.
C4_AsStated ==
    [][\A c \in Callers :
        Returns(c) /\ hist[c].atexit =>
            ret'[c].t \in {"ChannelClosed", "StdioProcessError"}]_vars

\* C4 (amended): a Request send that was waiting for its response when the
\* child exited eventually completes; it returns ChannelClosed or
\* StdioProcessError, or the response with its id that the child had written
\* before it exited, or the serialization error of a request that was still
\* queued.  Once the actor task has returned no send waits on an open slot.
C4_CompletesAfterKill ==
    /\ \A c \in Callers : (pc[c] = "await" /\ hist[c].atexit) ~> (pc[c] = "idle")
    /\ [][\A c \in Callers :
            Returns(c) /\ hist[c].atexit =>
                \/ ret'[c].t \in {"ChannelClosed", "StdioProcessError"}
                \/ ret'[c] = OkSome(msg[c].id, "a")
                \/ ret'[c] = Serialization /\ ~msg[c].ser /\ ~hist[c].written]_vars
    /\ [](a_pc = "returned" =>
            \A c \in Callers : pc[c] = "await" => slots[cslot[c]].st # "open")

\* one send has returned the process failure; the wait of another, which
\* was waiting when the child exited, has ended with ChannelClosed after the
\* actor task returned
C4_Witness ==
    \E c, d \in Callers :
        /\ pc[c] = "check" /\ hist[c].atexit /\ result[c] = ChannelClosed
        /\ pc[d] = "idle" /\ ret[d].t = "StdioProcessError"
        /\ result[d] = ChannelClosed
        /\ a_pc = "returned"

\* C5 as stated: once the child has exited leaving "boom" on stderr, every
\* Request send started afterwards returns StdioProcessError("boom").
C5_AsStated ==
    [][\A c \in Callers :
        Returns(c) /\ msg[c].kind = "Request" /\ hist[c].afterexit
            /\ stderr_text = "boom"
            => ret'[c] = StdioProcessError("boom")]_vars

\* C5 (amended): the actor queues at most one failure, whose message is the
\* stderr text (the fixed text when stderr was empty; none when reading
\* stderr fails or no handle is left).  A send started after the exit
\* returns that failure exactly when it is still queued at the send's poll,
\* which takes it from the channel; every other such send returns its own
\* result, which is ChannelClosed when the queue's receiver was already
\* dropped at the enqueue.
C5_FailureOnce ==
    /\ [](errq # <<>> =>
            /\ errq = <<StdioProcessError(IF stderr_text # "" THEN stderr_text
                                          ELSE "Process ended unexpectedly")>>
            /\ a_pc \in {"clear", "drop", "returned"})
    /\ [][\A c \in Callers :
            Returns(c) /\ hist[c].afterexit =>
                /\ (errq # <<>> => ret'[c] = Polled /\ errq' = <<>>)
                /\ (errq = <<>> => ret'[c] = result[c]
                                   /\ ret'[c].t # "StdioProcessError")
                /\ (errq = <<>> /\ hist[c].enq = "no" => ret'[c] = ChannelClosed)]_vars
    /\ [][errq = <<>> /\ a_pc \in {"clear", "drop", "returned"} => errq' = errq]_vars

\* one send has returned the failure with the stderr text; another, started
\* after the exit, is about to return its own ChannelClosed
C5_Witness ==
    /\ stderr_text = "boom" /\ errq = <<>>
    /\ \E c, d \in Callers :
         /\ pc[c] = "idle" /\ ret[c] = StdioProcessError("boom")
         /\ pc[d] = "check" /\ hist[d].afterexit /\ msg[d].kind = "Request"
         /\ result[d] = ChannelClosed

\* C6: when send_message has finished, on either path, send polls the
\* failure channel once and this never blocks; a queued failure is taken
\* from the channel and returned in place of send_message's result, whatever
\* that result is; with none queued the result is returned unchanged.
C6_PollOverrides ==
    /\ [](\A c \in Callers : pc[c] = "check" => result[c] # NoRes /\ ENABLED send_return(c))
    /\ [][\A c \in Callers :
            Returns(c) =>
                IF errq # <<>>
                THEN ret'[c] = Head(errq) /\ errq' = Tail(errq)
                ELSE ret'[c] = result[c] /\ errq' = errq]_vars

\* a send whose own result was a response has returned the process failure
C6_Witness ==
    \E c \in Callers :
        /\ pc[c] = "idle" /\ ret[c].t = "StdioProcessError"
        /\ result[c].t = "Ok"

TakesRequest ==
    /\ a_pc = "select" /\ w_pc = "recv" /\ w_pc' = "write"
    /\ Head(queue).message.kind = "Request"
    /\ Head(queue).response_tx # NoSlot

\* C24 as stated: a response that the child wrote after it was sent the
\* request of a waiting send, and that carries its id, finds that send's
\* slot in the table when the reader takes it (a send that already holds a
\* response aside).
C24_AsStated ==
    [][\A c \in Callers :
        (/\ ReadsResponse /\ Head(stdout).id = msg[c].id
         /\ pc[c] = "await" /\ hist[c].written /\ hist[c].answered
         /\ slots[cslot[c]].st # "value") =>
            requests[msg[c].id] = cslot[c]]_vars

\* C24 (amended): the step in which the writer takes a Request envelope with
\* a response slot registers (id, slot) and writes nothing; the write is a
\* later step, and until it is made the entry is in the table as long as
\* the waiter is open.  A response that the reader takes for a written
\* request of that id finds the slot in the table and completes it, unless
\* the waiter was completed or closed before (by an earlier line with the
\* id, or by a later request that reused the id).
C24_InsertBeforeWrite ==
    /\ [][TakesRequest =>
            /\ requests'[Head(queue).message.id] = Head(queue).response_tx
            /\ hist' = hist]_vars
    /\ [][\A c \in Callers :
            ~hist[c].written /\ hist'[c].written =>
                /\ w_pc = "write" /\ cur.from = c
                /\ (cur.message.kind = "Request" /\ slots[cslot[c]].st = "open" =>
                        requests[cur.message.id] = cslot[c])]_vars
    /\ [][\A c \in Callers :
            (/\ ReadsResponse /\ Head(stdout).id = msg[c].id
             /\ pc[c] = "await" /\ hist[c].written
             /\ slots[cslot[c]].st = "open") =>
                /\ requests[msg[c].id] = cslot[c]
                /\ slots'[cslot[c]].st = "value"
                /\ slots'[cslot[c]].val = OkSome(msg[c].id, "a")]_vars

\* C24: the case: the response to the written request of c1 is in the pipe
\* and its slot in the table, while the writer holds the registered request
\* of c2 and has not written it yet
C24_Witness ==
    /\ a_pc = "select"
    /\ pc["c1"] = "await" /\ hist["c1"].written /\ hist["c1"].answered
    /\ stdout # <<>> /\ Head(stdout).kind = "resp" /\ Head(stdout).id = msg["c1"].id
    /\ requests[msg["c1"].id] = cslot["c1"]
    /\ w_pc = "write" /\ cur.from = "c2" /\ cur.message.kind = "Request"
    /\ requests[cur.message.id] = cslot["c2"]

\* C25 as stated: once the select of run() has ended the actor eventually
\* clears the pending table and returns, and every send that waits for its
\* response then eventually completes.
C25_AsStated ==
    \A c \in Callers :
        /\ (a_pc = "stderr" /\ pc[c] = "await") ~> (a_pc = "returned")
        /\ (a_pc = "stderr" /\ pc[c] = "await") ~> (pc[c] = "idle")

\* C25: the case: the select has ended while the child still runs, and a
\* send waits on an open slot that is in the table
C25_Witness ==
    /\ a_pc = "stderr" /\ child # "dead"
    /\ \E c \in Callers :
        /\ pc[c] = "await" /\ slots[cslot[c]].st = "open"
        /\ requests[msg[c].id] = cslot[c]

\* a slot is closed by clear() in this step
ClosedByClear(s) == slots[s].st = "open" /\ slots'[s].st = "closed" /\ slots'[s].by = "clear"

\* C26 as stated: a send whose waiter was closed by clear() finds the
\* process failure queued when it polls the failure channel.
C26_AsStated ==
    [][\A c \in Callers :
        Returns(c) /\ cslot[c] # NoSlot /\ slots[cslot[c]].by = "clear" =>
            errq # <<>> /\ ret'[c].t = "StdioProcessError"]_vars

\* C26 (amended): the actor moves from its select to the read of stderr,
\* then to clear(), then returns, in this order only; the failure channel
\* receives a failure in the step that ends the read of stderr and in no
\* other; waiters are closed by clear() in the clear step and in no other,
\* and that step empties the table; when the task has returned the table
\* is empty and every send that still waits has its result (a response or
\* channel-closed).  A send whose waiter was
\* closed by clear() returns the failure if one is still queued at its poll
\* and ChannelClosed otherwise.
C26_CleanupOrder ==
    /\ [][a_pc' # a_pc =>
            <<a_pc, a_pc'>> \in {<<"select", "stderr">>, <<"stderr", "clear">>,
                                 <<"clear", "drop">>, <<"drop", "returned">>}]_vars
    /\ [][Len(errq') > Len(errq) =>
            /\ a_pc = "stderr" /\ a_pc' = "clear" /\ child = "dead"
            /\ errq' = <<StdioProcessError(IF stderr_text' # "" THEN stderr_text'
                                           ELSE "Process ended unexpectedly")>>]_vars
    /\ [][(\E s \in Slot : ClosedByClear(s)) =>
            a_pc = "clear" /\ a_pc' = "drop"]_vars
    /\ [][a_pc = "clear" /\ a_pc' = "drop" =>
            /\ requests' = EmptyTable
            /\ \A s \in Slot : InTable(s) /\ slots[s].st = "open" /\ slots[s].rx =>
                    slots'[s].st = "closed"]_vars
    /\ [](a_pc = "returned" =>
            /\ requests = EmptyTable
            /\ \A c \in Callers :
                    pc[c] = "await" => slots[cslot[c]].st \in {"value", "closed"})
    /\ [][\A c \in Callers :
            Returns(c) /\ cslot[c] # NoSlot /\ slots[cslot[c]].by = "clear" =>
                ret'[c] = IF errq # <<>> THEN Polled ELSE ChannelClosed]_vars

\* C26: the case: the task has returned, the failure is queued, and a send
\* whose waiter clear() closed is about to poll the failure channel
C26_Witness ==
    /\ a_pc = "returned" /\ errq # <<>>
    /\ \E c \in Callers :
        /\ pc[c] = "check" /\ cslot[c] # NoSlot
        /\ slots[cslot[c]].by = "clear" /\ result[c] = ChannelClosed

\* the writer takes the envelope at the head of the queue in this step
WriterTakes == a_pc = "select" /\ w_pc = "recv" /\ queue # <<>> /\ queue' = Tail(queue)
\* the writer's write_all and flush of the envelope it holds, in this step
WriterWrites == a_pc = "select" /\ w_pc = "write" /\ cur # NoEnv /\ cur' = NoEnv

\* C28: when the envelope the writer takes cannot be serialized, that step
\* sends Err(Serialization) on the envelope's slot if it has one and changes
\* no other slot, registers nothing, holds nothing to write, marks nothing
\* written, and leaves the writer at its recv and the actor in its select;
\* a send returns Err(Serialization) for its own such message only.  A
\* write that fails ends the writer: the select ends and the queue's
\* receiver is dropped.
C28_SerializationError ==
    /\ [][WriterTakes /\ ~Head(queue).message.ser =>
            LET s == Head(queue).response_tx IN
            /\ requests' = requests
            /\ cur' = cur /\ hist' = hist /\ stdout' = stdout
            /\ w_pc' = "recv" /\ a_pc' = "select" /\ rxOpen' = rxOpen
            /\ \A x \in Slot \ {s} : slots'[x] = slots[x]
            /\ (s # NoSlot /\ slots[s].rx =>
                    /\ slots'[s].st = "value"
                    /\ slots'[s].val = Serialization)]_vars
    /\ [][\A c \in Callers :
            Returns(c) /\ (ret'[c] = Serialization \/ result[c] = Serialization) =>
                ~msg[c].ser /\ ~hist[c].written]_vars
    /\ [][WriterWrites =>
            IF child = "alive"
            THEN w_pc' = "recv" /\ a_pc' = "select" /\ rxOpen' = rxOpen
            ELSE a_pc' = "stderr" /\ rxOpen' = FALSE]_vars

\* C28: the case: the send of c1, first in the queue, has returned
\* Err(Serialization); the writer went on to the request of c2, registered
\* it and holds it to write it
C28_Witness ==
    /\ a_pc = "select"
    /\ pc["c1"] = "idle" /\ ret["c1"] = Serialization
    /\ w_pc = "write" /\ cur.from = "c2" /\ cur.seq = 2
    /\ cur.message.kind = "Request"
    /\ pc["c2"] = "await" /\ requests[cur.message.id] = cslot["c2"]

\* ============================== SpecReader ===============================
\* handle_incoming_messages alone, over what the child has written to its
\* stdout and a pending table that holds the waiters of written requests.
\* input keeps the lines the child wrote; stdout is what is left to read.

\* lines the child has written
MaxLines == 3

\* the sends that wait: caller c1 for id 1 on slot 1, c2 for id 2 on slot 2
Waiting == SUBSET Callers
IdOf(c) == IF c = "c1" THEN 1 ELSE 2

InitReader ==
    /\ \E W \in Waiting :
        /\ requests = [i \in Ids |-> IF \E c \in W : IdOf(c) = i THEN i ELSE NoSlot]
        /\ slots = [s \in Slot |->
                        IF \E c \in W : IdOf(c) = s THEN NewSlot(s) ELSE UnusedSlot]
        /\ pc = [c \in Callers |-> IF c \in W THEN "await" ELSE "idle"]
        /\ msg = [c \in Callers |->
                        IF c \in W THEN [kind |-> "Request", id |-> IdOf(c), ser |-> TRUE]
                        ELSE NoMsg]
        /\ cslot = [c \in Callers |-> IF c \in W THEN IdOf(c) ELSE NoSlot]
        /\ hist = [c \in Callers |->
                        IF c \in W THEN [NoHist EXCEPT !.enq = "select", !.written = TRUE]
                        ELSE NoHist]
        /\ nsent = Cardinality(W)
    /\ tp = [c \in Callers |-> IdleOp]
    /\ tlast = [op |-> "none", id |-> 0, hit |-> FALSE]
    /\ result = [c \in Callers |-> NoRes]
    /\ ret = [c \in Callers |-> NoRes]
    /\ handle = TRUE
    /\ queue = <<>>
    /\ rxOpen = TRUE
    /\ w_pc = "recv"
    /\ cur = NoEnv
    /\ a_pc = "select"
    /\ child \in {"alive", "closed"}
    /\ input \in UNION {[1..n -> ChildLines] : n \in 0..MaxLines}
    /\ stdout = input
    /\ stderr_text = ""
    /\ errq = <<>>
    /\ reader = [avail |-> <<>>, next |-> 1, half |-> FALSE]
    /\ items = [seq |-> <<>>, ended |-> FALSE]
    /\ run = [pc |-> "unused"]
    /\ out = <<>>
    /\ calls = <<>>
    /\ mcp = [impl |-> "none"]
    /\ ctx = [map |-> <<>>, built |-> FALSE, log |-> <<>>, got |-> <<>>]

NextReader ==
    \/ handle_incoming_messages
    \/ \E c \in Callers : send_message_await(c)

SpecReader == InitReader /\ [][NextReader]_vars

\* the reader takes a line in this step
ReadsLine == a_pc = "select" /\ stdout # <<>> /\ stdout' = Tail(stdout)

EarlierEnv ==
    [message |-> [kind |-> "Notification", id |-> 0, ser |-> TRUE],
     response_tx |-> NoSlot, from |-> "", seq |-> 0, live |-> FALSE]

InitQueue ==
    /\ requests = EmptyTable
    /\ slots = [s \in Slot |-> UnusedSlot]
    /\ tp = [c \in Callers |-> IdleOp]
    /\ tlast = [op |-> "none", id |-> 0, hit |-> FALSE]
    /\ pc = [c \in Callers |-> "idle"]
    /\ msg = [c \in Callers |-> NoMsg]
    /\ result = [c \in Callers |-> NoRes]
    /\ cslot = [c \in Callers |-> NoSlot]
    /\ handle = TRUE
    /\ nsent = 0
    /\ ret = [c \in Callers |-> NoRes]
    /\ hist = [c \in Callers |-> NoHist]
    /\ queue \in {<<>>, <<EarlierEnv>>}
    /\ rxOpen = TRUE
    /\ w_pc = "recv"
    /\ cur = NoEnv
    /\ a_pc = "select"
    /\ child = "alive"
    /\ stdout = <<>>
    /\ stderr_text = ""
    /\ errq = <<>>
    /\ ServerUnused

NextQueue ==
    \/ \E c \in Callers : CallerStep(c)
    \/ handle_outgoing_recv
    \/ handle_outgoing_write
    \/ handle_incoming_messages
    \/ child_write

SpecQueue == InitQueue /\ [][NextQueue]_vars

\* the envelope of the send of caller c
EnvOf(c) ==
    [message |-> msg[c], response_tx |-> cslot[c], from |-> c, seq |-> nsent,
     live |-> TRUE]
\* the queue holds the same envelopes, some marked as of a send that is over
SameEnvelopes ==
    /\ Len(queue') = Len(queue)
    /\ \A k \in 1..Len(queue) :
        queue'[k] \in {queue[k], [queue[k] EXCEPT !.live = FALSE]}

\* C31: the queue never holds more envelopes than its capacity; a producer
\* at its enqueue can go on exactly when the queue has a free place, so one
\* that finds it full waits until the writer has taken an envelope; and the
\* queue changes only by a producer appending its envelope or the writer
\* taking the one at its head: no envelope leaves it otherwise.
C31_Bounded ==
    /\ [](Len(queue) <= QueueCap)
    /\ [](\A c \in Callers :
            pc[c] = "enqueue" /\ rxOpen =>
                (ENABLED send_message_enqueue(c)) = (Len(queue) < QueueCap))
    /\ [][queue' # queue =>
            \/ \E c \in Callers :
                /\ pc[c] = "enqueue" /\ Len(queue) < QueueCap
                /\ queue' = Append(queue, EnvOf(c))
            \/ /\ w_pc = "recv" /\ queue # <<>> /\ queue' = Tail(queue)
               /\ \/ ~Head(queue).message.ser
                  \/ cur' = [Head(queue) EXCEPT !.response_tx = NoSlot]
            \/ SameEnvelopes]_vars

\* C31: the case: the queue is full and a producer waits at its enqueue
C31_Witness ==
    /\ Len(queue) = QueueCap
    /\ rxOpen /\ a_pc = "select"
    /\ \E c \in Callers : pc[c] = "enqueue" /\ ~ENABLED send_message_enqueue(c)

\* the callers whose last send returned the process failure
GotFailure == {c \in Callers : ret[c].t = "StdioProcessError"}

\* C32: the failure channel never holds more than one StdioProcessError and
\* the actor places one at most once, at the end of its read of stderr, to
\* which it never comes back; a send returns a StdioProcessError only by
\* taking it from the channel, so the failure is either still queued or was
\* returned by one send, never by two; every other send whose send_message
\* failed with ChannelClosed returns ChannelClosed, and a send that meets
\* the returned actor at its enqueue fails with ChannelClosed.
C32_OneFailure ==
    /\ [](Len(errq) + Cardinality(GotFailure) <= 1)
    /\ [][errq' # errq =>
            \/ /\ a_pc = "stderr" /\ a_pc' = "clear"
               /\ errq = <<>> /\ Len(errq') = 1
               /\ errq'[1].t = "StdioProcessError"
            \/ /\ errq' = <<>>
               /\ \E c \in Callers : Returns(c) /\ ret'[c] = errq[1]]_vars
    /\ [][(a_pc \in {"clear", "drop", "returned"}) =>
            (a_pc' \in {"clear", "drop", "returned"})]_vars
    /\ [][\A c \in Callers :
            Returns(c) =>
                /\ ret'[c].t = "StdioProcessError" =>
                        errq = <<ret'[c]>> /\ errq' = <<>>
                /\ result[c] = ChannelClosed /\ errq = <<>> =>
                        ret'[c] = ChannelClosed
                /\ result[c] = ChannelClosed /\ GotFailure # {} =>
                        ret'[c] = ChannelClosed]_vars
    /\ [][\A c \in Callers :
            pc[c] = "enqueue" /\ pc'[c] # "enqueue" /\ a_pc = "returned" =>
                result'[c] = ChannelClosed]_vars

\* two sends have failed because of the same shutdown: one has returned the
\* process failure, the other ChannelClosed
C32_Witness ==
    /\ a_pc = "returned" /\ errq = <<>>
    /\ \E c, d \in Callers :
         /\ pc[c] = "idle" /\ ret[c].t = "StdioProcessError"
         /\ pc[d] = "idle" /\ ret[d] = ChannelClosed

\* the actor's select has ended: writer and reader are no longer polled
RaceEnded == a_pc # "select"

\* C33: once the select of run() has ended the writer makes no step: no
\* envelope is taken or written and the table gets no new entry (entries
\* only leave it).  When the task has returned the table is empty, the queue
\* and its receiver are gone, the Senders of the envelopes that were still
\* queued have been dropped with them, so no waiter's slot is open and each
\* waiter can end its wait; a send at its enqueue can go on and fails there
\* with ChannelClosed, and a send at its poll can return: no send is blocked
\* by an actor that has returned.
C33_AfterRace ==
    /\ [][RaceEnded =>
            /\ w_pc' = w_pc
            /\ \A c \in Callers : hist'[c].written => hist[c].written
            /\ \A i \in Ids : requests'[i] \in {requests[i], NoSlot}
            /\ Len(queue') >= Len(queue) \/ queue' = <<>>]_vars
    /\ [](a_pc = "returned" =>
            /\ requests = EmptyTable /\ queue = <<>> /\ ~rxOpen /\ cur = NoEnv
            /\ \A c \in Callers :
                /\ pc[c] = "enqueue" => ENABLED send_message_enqueue(c)
                /\ pc[c] = "await" => /\ slots[cslot[c]].st # "open"
                                      /\ ENABLED send_message_await(c)
                /\ pc[c] = "check" => ENABLED send_return(c))
    /\ [][a_pc = "drop" /\ a_pc' = "returned" =>
            \A k \in 1..Len(queue) :
                queue[k].response_tx # NoSlot =>
                    slots'[queue[k].response_tx].st # "open"]_vars
    /\ [][\A c \in Callers :
            a_pc = "returned" /\ pc[c] = "enqueue" /\ pc'[c] # "enqueue" =>
                /\ pc'[c] = "check" /\ result'[c] = ChannelClosed
                /\ queue' = <<>> /\ requests' = EmptyTable]_vars

\* the actor has returned; the envelope of a Request enqueued after the race
\* had ended was dropped with the queue and its waiter has observed
\* channel-closed; a later send has failed at its enqueue
C33_Witness ==
    /\ a_pc = "returned"
    /\ \E c, d \in Callers :
         /\ pc[c] = "check" /\ hist[c].enq = "late" /\ result[c] = ChannelClosed
         /\ slots[cslot[c]].by = "drop"
         /\ pc[d] = "check" /\ hist[d].enq = "no" /\ result[d] = ChannelClosed

\* C33, the wait of a send: under fair polling every send in progress when
\* the actor has returned comes back to its caller
C33_SendsEnd ==
    \A c \in Callers : (a_pc = "returned" /\ pc[c] # "idle") ~> (pc[c] = "idle")

\* C34 as stated: once every clone of the handle has been dropped the actor
\* task eventually returns and the child is dead.
C34_AsStated ==
    (~handle) ~> (a_pc = "returned" /\ child = "dead")

\* no handle is left, the writer has seen its queue closed and the select
\* has ended, and the actor waits for the end of the stderr of a child that
\* keeps running
C34_Witness ==
    /\ ~handle /\ ~rxOpen /\ queue = <<>>
    /\ a_pc = "stderr" /\ child = "alive"
    /\ ~ENABLED run_read_stderr

\* C34, the part that holds: the child is not alive once the actor has been
\* dropped
C34_DeadAfterDrop == a_pc = "returned" => child = "dead"
\* ============================== the server ===============================
\* ----------------------------------------------------------------- bounds
\* lines in the input of SpecTransport
MaxFrames == 3
\* lines in the input of SpecServer and SpecTools
MaxRequests == 2

\* ------------------------------------------------------ lines and messages
\* What one '\n'-terminated line of the input holds.  k says how far the
\* bytes get through the decoder: "bytes" are not UTF-8, "text" is UTF-8
\* that is not JSON, "array" is a JSON value that is not an object, "object"
\* is a JSON object with the fields given ("" for a field that is absent);
\* "ioerr" stands for a read that fails instead of a line.
Absent == ""
Line(k, jsonrpc, id, method, params) ==
    [k |-> k, jsonrpc |-> jsonrpc, id |-> id, method |-> method, params |-> params]

\* SendableMessage: Request(JsonRpcRequest) | Notification(JsonRpcNotification)
Request(id, method, params) ==
    [v |-> "Request", id |-> id, method |-> method, params |-> params]
Notification(method, params) ==
    [v |-> "Notification", id |-> Absent, method |-> method, params |-> params]
NoMessage == [v |-> "none", id |-> Absent, method |-> Absent, params |-> Absent]

\* the messages a peer sends in the model; params of a tools/call is the
\* name of the tool
ToolNames == {"calculator", "missing"}
SendableMessages ==
    {Request("b", "tools/list", Absent), Notification("x", Absent)}
        \cup {Request("a", "tools/call", n) : n \in ToolNames}

\* serde_json::to_string(&message): one JSON object, version "2.0", no id
\* field for a Notification, no params field when there are none
to_string(m) == Line("object", "2.0", m.id, m.method, m.params)

\* Item of the stream: Result<SendableMessage, TransportError>
Item(t, e, reason, m) == [t |-> t, e |-> e, reason |-> reason, m |-> m]
OkItem(m) == Item("Ok", "", "", m)
ErrItem(e, reason) == Item("Err", e, reason, NoMessage)
NoItem == Item("none", "", "", NoMessage)

\* serde_json::from_value::<SendableMessage>(value): the enum is untagged,
\* so the variants are tried in their order, Request first.  A Request needs
\* id and method, a Notification needs method; fields a variant does not
\* know are ignored.
from_value(o) ==
    IF o.id # Absent /\ o.method # Absent THEN OkItem(Request(o.id, o.method, o.params))
    ELSE IF o.method # Absent THEN OkItem(Notification(o.method, o.params))
    ELSE ErrItem("Json", "")

\* decode with the shape tried before the version is looked at
decode_shape_first(buf) ==
    IF buf.k = "bytes" THEN ErrItem("Utf8", "")
    ELSE IF buf.k = "text" THEN ErrItem("Json", "")
    ELSE IF buf.k # "object"
        THEN ErrItem("InvalidMessage", "Message must be a JSON object")
    ELSE IF from_value(buf).t = "Ok" THEN from_value(buf)
    ELSE IF buf.jsonrpc # "2.0"
        THEN ErrItem("InvalidMessage", "Missing or invalid jsonrpc version")
    ELSE from_value(buf)

\* poll_next, Poll::Ready(Ok(_)): the checks on the bytes read_until put in
\* buf, in the order of the code
decode(buf) ==
    IF buf.k = "bytes" THEN ErrItem("Utf8", "")
    ELSE IF buf.k = "text" THEN ErrItem("Json", "")
    ELSE IF buf.k # "object"
        THEN ErrItem("InvalidMessage", "Message must be a JSON object")
    ELSE IF buf.jsonrpc # "2.0"
        THEN ErrItem("InvalidMessage", "Missing or invalid jsonrpc version")
    ELSE from_value(buf)

\* ------------------------------------------------------------ the reader
\* The lines of the model's inputs.
BadUtf8 == Line("bytes", Absent, Absent, Absent, Absent)
NotJson == Line("text", Absent, Absent, Absent, Absent)
NonObject == Line("array", Absent, Absent, Absent, Absent)
OldVersion == Line("object", "1.0", "a", "x", Absent)
NoVersion == Line("object", Absent, "a", "x", Absent)
NoMethod == Line("object", "2.0", "a", Absent, Absent)
ReadFails == Line("ioerr", Absent, Absent, Absent, Absent)
Frames ==
    {BadUtf8, NotJson, NonObject, OldVersion, NoVersion, NoMethod, ReadFails}
        \cup {to_string(m) : m \in SendableMessages}

SeqsUpTo(S, n) == UNION {[1..k -> S] : k \in 0..n}

\* A piece of input that has arrived at the reader and is not consumed yet:
\* line n of the input, whole, or its first or its last bytes only.
Piece(n, part) == [n |-> n, part |-> part]
\* The bytes of the end of a line, without its beginning: a proper suffix of
\* a JSON text is not a JSON text; bytes that are not UTF-8 stay so.
Fragment(l) == IF l.k = "bytes" THEN l ELSE NotJson
\* what read_until returns for a piece that ends with the newline
read_until(p) == IF p.part = "whole" THEN input[p.n] ELSE Fragment(input[p.n])

\* the peer has written everything and closed: a read returns 0 bytes
AtEof == reader.next > Len(input) /\ ~reader.half

ReaderInit == [avail |-> <<>>, next |-> 1, half |-> FALSE]

\* The peer's next line arrives with one write; if its first bytes arrived
\* before and are still unread, the line is whole in the buffer again.
arrive_line ==
    /\ reader.next <= Len(input)
    /\ LET n == reader.next
           a == reader.avail
           joined == reader.half /\ a # <<>> /\ a[Len(a)] = Piece(n, "head")
       IN reader' = [avail |-> IF joined
                                   THEN [a EXCEPT ![Len(a)] = Piece(n, "whole")]
                                   ELSE Append(a, Piece(n, IF reader.half THEN "tail"
                                                                          ELSE "whole")),
                     next |-> n + 1, half |-> FALSE]
    /\ UNCHANGED <<requests, slots, tp, tlast, pc, msg, result, cslot, handle, ret,
                   nsent, hist, queue, rxOpen, w_pc, cur, a_pc, child, stdout,
                   stderr_text, errq, input, items, run, out, calls, mcp, ctx>>

\* The first bytes of the peer's next line arrive, the rest comes later (a
\* line longer than the pipe's buffer, or written in several writes).
arrive_head ==
    /\ reader.next <= Len(input)
    /\ ~reader.half
    /\ input[reader.next].k # "ioerr"
    /\ reader' = [reader EXCEPT !.avail = Append(@, Piece(reader.next, "head")),
                                !.half = TRUE]
    /\ UNCHANGED <<requests, slots, tp, tlast, pc, msg, result, cslot, handle, ret,
                   nsent, hist, queue, rxOpen, w_pc, cur, a_pc, child, stdout,
                   stderr_text, errq, input, items, run, out, calls, mcp, ctx>>

\* ByteTransport::poll_next, one call: the result and what is left in the
\* reader.  buf is a new Vec and the read_until future is new in each call;
\* both are dropped when the call returns.  With a whole line available (or
\* the end of one) the future is ready; with only the first bytes of a line
\* available it moves them into buf and is pending, and they go with buf.
poll_next ==
    IF reader.avail = <<>> THEN
        [t |-> IF AtEof THEN "None" ELSE "Pending", n |-> 0, buf |-> NotJson,
         item |-> NoItem, avail |-> <<>>]
    ELSE LET p == Head(reader.avail) IN
        IF p.part = "head" THEN
            [t |-> "Pending", n |-> 0, buf |-> NotJson, item |-> NoItem,
             avail |-> Tail(reader.avail)]
        ELSE IF input[p.n].k = "ioerr" THEN
            [t |-> "Some", n |-> p.n, buf |-> input[p.n], item |-> ErrItem("Io", ""),
             avail |-> Tail(reader.avail)]
        ELSE
            [t |-> "Some", n |-> p.n, buf |-> read_until(p),
             item |-> decode(read_until(p)), avail |-> Tail(reader.avail)]

\* history of the stream: the items yielded, each with the input line it
\* came from and the bytes that were decoded
Yield(r) == [seq |-> IF r.t = "Some"
                        THEN Append(items.seq, [n |-> r.n, buf |-> r.buf, item |-> r.item])
                        ELSE items.seq,
             ended |-> r.t = "None"]

\* ============================ SpecTransport ==============================
\* A consumer polls the stream until it ends.  A poll that is pending and
\* consumed nothing changes nothing and is no step.
InitTransport ==
    /\ ClientInit
    /\ input \in SeqsUpTo(Frames, MaxFrames)
    /\ reader = ReaderInit
    /\ items = [seq |-> <<>>, ended |-> FALSE]
    /\ run = [pc |-> "unused"]
    /\ out = <<>>
    /\ calls = <<>>
    /\ mcp = [impl |-> "none"]
    /\ ctx = [map |-> <<>>, built |-> FALSE, log |-> <<>>, got |-> <<>>]

stream_next ==
    /\ ~items.ended
    /\ LET r == poll_next IN
        /\ r.t = "Pending" => r.avail # reader.avail
        /\ reader' = [reader EXCEPT !.avail = r.avail]
        /\ items' = Yield(r)
    /\ UNCHANGED <<requests, slots, tp, tlast, pc, msg, result, cslot, handle, ret,
                   nsent, hist, queue, rxOpen, w_pc, cur, a_pc, child, stdout,
                   stderr_text, errq, input, run, out, calls, mcp, ctx>>

NextTransport == arrive_line \/ arrive_head \/ stream_next

SpecTransport == InitTransport /\ [][NextTransport]_vars

\* ------------------------------------------------- claims on SpecTransport
\* line i of the input is the encoding of a message
Valid(l) == \E m \in SendableMessages : l = to_string(m)
S2Input == <<NotJson, OldVersion, to_string(Request("b", "tools/list", Absent))>>
S2Items == <<ErrItem("Json", ""),
             ErrItem("InvalidMessage", "Missing or invalid jsonrpc version"),
             OkItem(Request("b", "tools/list", Absent))>>
ItemsOnly == [i \in 1..Len(items.seq) |-> items.seq[i].item]

\* C11 as stated: when the stream has ended, every line of the input has
\* yielded one item, in input order; the item of a line that is the encoding
\* of a message is Ok(that message), the item of any other line is an error;
\* and the three lines of scenario S2 yield Err(Json), Err(InvalidMessage),
\* Ok(Request id "b").
C11_AsStated ==
    items.ended =>
        /\ Len(items.seq) = Len(input)
        /\ \A i \in 1..Len(input) :
            /\ items.seq[i].n = i
            /\ \A m \in SendableMessages :
                input[i] = to_string(m) => items.seq[i].item = OkItem(m)
            /\ ~Valid(input[i]) => items.seq[i].item.t = "Err"
        /\ input = S2Input => ItemsOnly = S2Items

\* C11: the case: scenario S2 was read to its end and gave the three items
C11_Witness ==
    /\ items.ended
    /\ input = S2Input
    /\ ItemsOnly = S2Items

\* C12 as stated: when the input is the encoding of one message m and the
\* stream has ended, it has yielded exactly one item, Ok(m).
C12_AsStated ==
    \A m \in SendableMessages :
        (items.ended /\ input = <<to_string(m)>>) =>
            (Len(items.seq) = 1 /\ items.seq[1].item = OkItem(m))

\* C12: the case: the encoding of a Notification was read back as that
\* Notification, and the stream ended
C12_Witness ==
    /\ items.ended
    /\ input = <<to_string(Notification("x", Absent))>>
    /\ ItemsOnly = <<OkItem(Notification("x", Absent))>>

\* C30 as stated: however the reader delivered the bytes, when the stream
\* has ended every line of the input has yielded exactly one item, in input
\* order, decoded from all the bytes of that line.
C30_AsStated ==
    items.ended =>
        /\ Len(items.seq) = Len(input)
        /\ \A i \in 1..Len(items.seq) :
            /\ items.seq[i].n = i
            /\ items.seq[i].buf = input[i]
            /\ input[i].k # "ioerr" => items.seq[i].item = decode(input[i])

\* C30: the case: the first bytes of a valid frame arrived alone, the
\* stream was polled in the middle of the frame and reported not ready, and
\* the rest of the frame has not arrived yet
C30_Witness ==
    /\ reader.half
    /\ reader.avail = <<>>
    /\ reader.next <= Len(input)
    /\ Valid(input[reader.next])

\* ============================== SpecServer ===============================
\* Server::run over the transport, with a service that returns one of its
\* three kinds of result for every call.

\* JsonRpcResponse: Success{id, result} | Error{id, error: {code, message}};
\* Option<JsonRpcResponse> has NoResponse for None
Response(t, id, code, message, content) ==
    [t |-> t, id |-> id, code |-> code, message |-> message, result |-> content]
Success(id, content) == Response("Success", id, "", "", content)
Error(id, code, message) == Response("Error", id, code, message, <<>>)
NoResponse == Response("None", Absent, "", "", <<>>)

\* Result<Option<JsonRpcResponse>, BoxError> of service.call
\* Result<Option<JsonRpcResponse>, BoxError> of service.call, or its panic;
\* via: for a tools/call, what the tool and call_tool returned (history)
NoVia == <<>>
Svc(t, resp, text, via) == [t |-> t, resp |-> resp, text |-> text, via |-> via]
SvcOk(resp) == Svc("Ok", resp, "", NoVia)
SvcErr(text) == Svc("Err", NoResponse, text, NoVia)
SvcPending == Svc("pending", NoResponse, "", NoVia)
\* what a service may return for a request
ServiceResults(req) ==
    {SvcOk(Success(req.id, <<"r">>)), SvcOk(NoResponse), SvcErr("boom")}

RunIdle == [pc |-> "next", n |-> 0, req |-> NoMessage, resp |-> NoResponse,
            ret |-> "none"]

\* the match on the item in Server::run: what the loop does with it
match_item_errors_too(item) ==
    IF item.t = "Ok" /\ item.m.v = "Notification" THEN "continue" ELSE "call"

match_item(item) ==
    IF item.t = "Ok" /\ item.m.v = "Request" THEN "call"
    ELSE IF item.t = "Ok" THEN "continue"
    ELSE "logged"

\* the response of a failed call, without the request's id
response_no_id(id, res) ==
    IF res.t = "Ok" THEN res.resp ELSE Error(Absent, "INTERNAL_ERROR", res.text)

\* the response for the result of service.call
response(id, res) ==
    IF res.t = "Ok" THEN res.resp ELSE Error(id, "INTERNAL_ERROR", res.text)

\* write_message: the json, the newline, the flush; `fails` is the step that
\* fails, "none" when all succeed.  The writer then holds nothing more, the
\* json without its newline, or the whole line.
WriteFailures == {"none", "json", "newline", "flush"}
\* mutant: the line is put before what the writer already holds
write_message_first(w, n, resp, fails) ==
    IF fails = "json" THEN w
    ELSE <<[n |-> n, resp |-> resp, nl |-> fails # "newline"]>> \o w

write_message(w, n, resp, fails) ==
    IF fails = "json" THEN w
    ELSE Append(w, [n |-> n, resp |-> resp, nl |-> fails # "newline"])

\* a write failure that is not propagated
write_result_ignored(fails) == "continue"

\* the `?` on the result of write_message
write_result(fails) == IF fails = "none" THEN "continue" ELSE "Err(Transport(Io))"

InitServer ==
    /\ ClientInit
    /\ input \in SeqsUpTo(Frames, MaxRequests)
    /\ reader = ReaderInit
    /\ items = [seq |-> <<>>, ended |-> FALSE]
    /\ run = RunIdle
    /\ out = <<>>
    /\ calls = <<>>
    /\ mcp = [impl |-> "none"]
    /\ ctx = [map |-> <<>>, built |-> FALSE, log |-> <<>>, got |-> <<>>]

\* transport.next().await and the match on its item; for a Request the
\* service is called
Server_run_next ==
    /\ run.pc = "next"
    /\ LET r == poll_next
           m == match_item(r.item)
       IN
        /\ r.t = "Pending" => r.avail # reader.avail
        /\ reader' = [reader EXCEPT !.avail = r.avail]
        /\ items' = Yield(r)
        /\ IF r.t = "None" THEN
                /\ run' = [run EXCEPT !.pc = "done", !.ret = "Ok"]
                /\ calls' = calls
           ELSE IF r.t = "Some" /\ m = "call" THEN
                /\ run' = [run EXCEPT !.pc = "call", !.n = r.n, !.req = r.item.m]
                /\ calls' = Append(calls, [n |-> r.n, req |-> r.item.m, res |-> SvcPending])
           ELSE
                /\ run' = run
                /\ calls' = calls
    /\ UNCHANGED <<requests, slots, tp, tlast, pc, msg, result, cslot, handle, ret,
                   nsent, hist, queue, rxOpen, w_pc, cur, a_pc, child, stdout,
                   stderr_text, errq, input, out, mcp, ctx>>

\* service.call(..).await completes with res and the response is chosen; a
\* panic in the service unwinds through run, which then never returns
Server_run_call(res) ==
    /\ run.pc = "call"
    /\ calls' = [calls EXCEPT ![Len(calls)].res = res]
    /\ LET resp == response(run.req.id, res) IN
        run' = IF res.t = "panic"
                  THEN [run EXCEPT !.pc = "panicked"]
                  ELSE [run EXCEPT !.pc = IF resp = NoResponse THEN "next" ELSE "write",
                                   !.resp = resp]
    /\ UNCHANGED <<requests, slots, tp, tlast, pc, msg, result, cslot, handle, ret,
                   nsent, hist, queue, rxOpen, w_pc, cur, a_pc, child, stdout,
                   stderr_text, errq, input, reader, items, out, mcp, ctx>>

\* transport.write_message(response).await and its `?`
Server_run_write(fails) ==
    /\ run.pc = "write"
    /\ out' = write_message(out, run.n, run.resp, fails)
    /\ run' = IF write_result(fails) = "continue"
                 THEN [run EXCEPT !.pc = "next"]
                 ELSE [run EXCEPT !.pc = "done", !.ret = write_result(fails)]
    /\ UNCHANGED <<requests, slots, tp, tlast, pc, msg, result, cslot, handle, ret,
                   nsent, hist, queue, rxOpen, w_pc, cur, a_pc, child, stdout,
                   stderr_text, errq, input, reader, items, calls, mcp, ctx>>

NextServer ==
    \/ arrive_line
    \/ arrive_head
    \/ Server_run_next
    \/ \E res \in ServiceResults(run.req) : Server_run_call(res)
    \/ \E fails \in WriteFailures : Server_run_write(fails)

SpecServer == InitServer /\ [][NextServer]_vars

\* The scheduler polls the run loop while it can go on, the service's future
\* completes, the write completes or fails, and the peer ends its input.
FairnessServer ==
    /\ WF_vars(arrive_line)
    /\ WF_vars(Server_run_next)
    /\ WF_vars(\E res \in ServiceResults(run.req) : Server_run_call(res))
    /\ WF_vars(\E fails \in WriteFailures : Server_run_write(fails))
FairSpecServer == SpecServer /\ FairnessServer

\* --------------------------------------------------- claims on SpecServer
\* the call with index j is still in the loop's hands
InHand(j) == j = Len(calls) /\ run.pc \in {"call", "write"}
\* the lines in the writer that answer input line n
Written(n) == {k \in 1..Len(out) : out[k].n = n}
RequestItems == {i \in 1..Len(items.seq) :
                    items.seq[i].item.t = "Ok" /\ items.seq[i].item.m.v = "Request"}

C14_AsStated ==
    \A j \in 1..Len(calls) :
        (calls[j].res.t = "Err" /\ ~InHand(j)) =>
            /\ Cardinality(Written(calls[j].n)) = 1
            /\ \A k \in Written(calls[j].n) :
                /\ out[k].resp = Error(calls[j].req.id, "INTERNAL_ERROR",
                                       calls[j].res.text)
                /\ out[k].nl
            /\ ~(j = Len(calls) /\ run.ret = "Err(Transport(Io))")

\* C14 amended: once the loop is done with a call that failed, whatever the
\* writer holds for that request is the Error response with the request's
\* id, INTERNAL_ERROR and the failure's text, at most once; and either that
\* line is whole and the loop went on, or the write failed and run returned
\* Err(Transport(Io)).
C14_ErrorResponse ==
    \A j \in 1..Len(calls) :
        (calls[j].res.t = "Err" /\ ~InHand(j)) =>
            /\ Cardinality(Written(calls[j].n)) <= 1
            /\ \A k \in Written(calls[j].n) :
                out[k].resp = Error(calls[j].req.id, "INTERNAL_ERROR",
                                    calls[j].res.text)
            /\ \/ /\ Cardinality(Written(calls[j].n)) = 1
                  /\ \A k \in Written(calls[j].n) : out[k].nl
                  /\ ~(j = Len(calls) /\ run.ret = "Err(Transport(Io))")
               \/ j = Len(calls) /\ run.ret = "Err(Transport(Io))"

\* C14: the case: the first call failed, its Error response was written, and
\* the loop went on to call the service for the next request
C14_Witness ==
    /\ Len(calls) = 2
    /\ calls[1].res.t = "Err"
    /\ Len(out) >= 1
    /\ out[1].resp = Error(calls[1].req.id, "INTERNAL_ERROR", calls[1].res.text)
    /\ out[1].nl

\* C15: the service is called only with the Request of an Ok item, once per
\* item; every line in the writer answers a call that returned a response or
\* failed, at most one line per call; so the lines written are never more
\* than the Request items read, and a call that returned Ok(None) has none.
C15_NoWriteWithoutRequest ==
    /\ \A j \in 1..Len(calls) :
        /\ \E i \in RequestItems :
            items.seq[i].n = calls[j].n /\ items.seq[i].item.m = calls[j].req
        /\ \A j2 \in 1..Len(calls) : calls[j2].n = calls[j].n => j2 = j
    /\ \A k \in 1..Len(out) :
        /\ \E j \in 1..Len(calls) :
            /\ calls[j].n = out[k].n
            /\ calls[j].res.t \in {"Ok", "Err"}
            /\ calls[j].res # SvcOk(NoResponse)
        /\ \A k2 \in 1..Len(out) : out[k2].n = out[k].n => k2 = k
    /\ Len(out) <= Cardinality(RequestItems)

\* C15: the case: the stream has ended after a Notification, or a line that
\* did not decode, and a Request that the service answered with Ok(None);
\* nothing was written
C15_Witness ==
    /\ run.ret = "Ok"
    /\ Len(items.seq) = 2
    /\ Len(calls) = 1
    /\ calls[1].res = SvcOk(NoResponse)
    /\ out = <<>>

Responds(j) ==
    \/ calls[j].res.t = "Err"
    \/ calls[j].res.t = "Ok" /\ calls[j].res.resp # NoResponse

\* C29: at most one call of the service is in flight, the latest, and only
\* while the loop awaits it; the loop takes an item from the stream only
\* when no call is in flight and every response of the earlier calls is in
\* the writer as a whole line; calls are made and responses written in the
\* order of the input lines of their requests.
C29_Sequential ==
    /\ [](\A j \in 1..Len(calls) :
            calls[j].res = SvcPending => (j = Len(calls) /\ run.pc = "call"))
    /\ [](\A j1, j2 \in 1..Len(calls) : j1 < j2 => calls[j1].n < calls[j2].n)
    /\ [](\A k1, k2 \in 1..Len(out) : k1 < k2 => out[k1].n < out[k2].n)
    /\ [](\A k \in 1..Len(out) : \E j \in 1..Len(calls) :
            calls[j].n = out[k].n /\ Responds(j) /\ (j < Len(calls) => out[k].nl))
    /\ [][items' # items =>
            /\ run.pc = "next"
            /\ \A j \in 1..Len(calls) :
                /\ calls[j].res # SvcPending
                /\ Responds(j) =>
                        \E k \in Written(calls[j].n) : out[k].nl]_vars

\* C29: the case: two requests were answered, the responses are in the
\* writer in the order of their requests, and the loop is back at the
\* stream
C29_Witness ==
    /\ Len(calls) = 2 /\ Len(out) = 2
    /\ out[1].n = calls[1].n /\ out[2].n = calls[2].n
    /\ out[1].nl /\ out[2].nl
    /\ run.pc = "next"

\* ============================== SpecTools ================================
\* Server::run with the router of an MCPServer as its service: the server of
\* crates/mcp-server/src/server.rs ("server") or the one of
\* examples/server_tool_macros/src/common.rs ("common"), with one tool.

\* serde_json::Value as a tool returns it: t is the variant, n the number,
\* s the string, b the bool; for an Array, c is what it decodes to as
\* Vec<Content> and ok tells whether it does
Value(t, n, s, b, ok, c) == [t |-> t, n |-> n, s |-> s, b |-> b, ok |-> ok, c |-> c]
text(s) == [type |-> "text", text |-> s]
Values ==
    {Value("Number", 42, "", FALSE, FALSE, <<>>),
     Value("String", 0, "hi", FALSE, FALSE, <<>>),
     Value("Bool", 0, "", TRUE, FALSE, <<>>),
     Value("Null", 0, "", FALSE, FALSE, <<>>),
     Value("Array", 0, "", FALSE, TRUE, <<text("t")>>),
     Value("Array", 0, "", FALSE, FALSE, <<>>),
     Value("Object", 0, "", FALSE, FALSE, <<>>)}

\* ToolResult<T> = Result<T, ToolError>
ToolOk(v) == [t |-> "Ok", v |-> v, kind |-> "", text |-> ""]
ToolErr(kind, m) ==
    [t |-> "Err", v |-> Value("Null", 0, "", FALSE, FALSE, <<>>), kind |-> kind,
     text |-> m]
ToolPanic == [t |-> "panic", v |-> Value("Null", 0, "", FALSE, FALSE, <<>>),
              kind |-> "", text |-> ""]
\* what the tool's call may return
ToolReturns ==
    {ToolOk(v) : v \in Values}
        \cup {ToolErr("ExecutionError", "Division by zero"),
              ToolErr("InvalidParameters", "Unknown operation")}

\* serde_json::from_value::<Vec<Content>>(res).map_err(ExecutionError): an
\* Object is no sequence and never decodes
from_value_contents(v) ==
    IF v.t = "Array" /\ v.ok THEN ToolOk(v.c)
    ELSE ToolErr("ExecutionError", "invalid type")

\* format!("{:?}", res) of a Value
debug(v) == IF v.t = "Null" THEN "Null" ELSE "Object {..}"
bool_to_string(b) == IF b THEN "true" ELSE "false"

\* the match on the tool's value in call_tool of server.rs
coerce_server(v) ==
    CASE v.t = "Number" -> ToolOk(<<text(ToString(v.n))>>)
      [] v.t = "String" -> ToolOk(<<text(v.s)>>)
      [] v.t = "Bool" -> ToolOk(<<text(bool_to_string(v.b))>>)
      [] v.t = "Array" -> from_value_contents(v)
      [] v.t = "Null" -> ToolOk(<<>>)
      [] v.t = "Object" -> from_value_contents(v)

\* the match on the tool's value in call_tool of common.rs
coerce_common(v) ==
    CASE v.t = "Number" -> ToolOk(<<text(ToString(v.n))>>)
      [] v.t = "String" -> ToolOk(<<text(v.s)>>)
      [] v.t = "Bool" -> ToolOk(<<text(bool_to_string(v.b))>>)
      [] v.t = "Array" -> from_value_contents(v)
      [] OTHER -> ToolOk(<<text(debug(v))>>)

\* MCPServer::call_tool(tool_name, arguments): tools.get(tool_name).unwrap()
\* panics when the name is not in the table; `?` passes the tool's error on
\* and a panic of the tool unwinds through the await; tr is what the tool's
\* call returns
call_tool(server, tool_name, tr) ==
    IF tool_name \notin server.tools THEN ToolPanic
    ELSE IF tr.t \in {"Err", "panic"} THEN tr
    ELSE IF server.impl = "server" THEN coerce_server(tr.v)
    ELSE coerce_common(tr.v)

\* the code of the Error response for a kind of ToolError
error_code(kind) ==
    IF kind = "InvalidParameters" THEN "INVALID_PARAMS" ELSE "INTERNAL_ERROR"

\* RouterService::call: the response of the router for a request
RouterService_call(server, req, tr) ==
    IF req.method = "tools/list" THEN SvcOk(Success(req.id, <<server.tools>>))
    ELSE IF req.method = "tools/call" THEN
        LET ct == call_tool(server, req.params, tr)
            via == [tr |-> tr, ct |-> ct]
        IN IF ct.t = "panic" THEN Svc("panic", NoResponse, "", via)
           ELSE IF ct.t = "Ok" THEN Svc("Ok", Success(req.id, ct.v), "", via)
           ELSE Svc("Ok", Error(req.id, error_code(ct.kind), ct.text), "", via)
    ELSE SvcOk(Error(req.id, "METHOD_NOT_FOUND", req.method))

InitTools ==
    /\ ClientInit
    /\ input \in SeqsUpTo({to_string(m) : m \in SendableMessages}, MaxRequests)
    /\ reader = ReaderInit
    /\ items = [seq |-> <<>>, ended |-> FALSE]
    /\ run = RunIdle
    /\ out = <<>>
    /\ calls = <<>>
    /\ mcp \in [impl : {"server", "common"}, tools : {{"calculator"}}]
    /\ ctx = [map |-> <<>>, built |-> FALSE, log |-> <<>>, got |-> <<>>]

NextTools ==
    \/ arrive_line
    \/ arrive_head
    \/ Server_run_next
    \/ \E tr \in ToolReturns : Server_run_call(RouterService_call(mcp, run.req, tr))
    \/ \E fails \in WriteFailures : Server_run_write(fails)

SpecTools == InitTools /\ [][NextTools]_vars

\* ---------------------------------------------------- claims on SpecTools
\* the calls of the service for a tools/call that are over
ToolCalls == {j \in 1..Len(calls) :
                calls[j].req.method = "tools/call" /\ calls[j].res # SvcPending}
\* the write for call j failed and ended run
WriteFailed(j) == j = Len(calls) /\ run.ret = "Err(Transport(Io))"

\* C17 as stated: the service answers a tools/call that names a tool absent
\* from the table with an Error response that has the request's id and the
\* method-not-found code, and the server keeps running.
C17_AsStated ==
    \A j \in ToolCalls :
        calls[j].req.params \notin mcp.tools =>
            /\ calls[j].res.t = "Ok"
            /\ calls[j].res.resp.t = "Error"
            /\ calls[j].res.resp.id = calls[j].req.id
            /\ calls[j].res.resp.code = "METHOD_NOT_FOUND"
            /\ run.pc # "panicked"

\* C17: the case the claim is about is reached: a tools/call naming a tool
\* that is not in the table was dispatched
C17_Witness ==
    \E j \in ToolCalls : calls[j].req.params \notin mcp.tools

\* C18 as stated: whenever a tool returned a value, call_tool returned, for
\* a Number, String or Bool one text content with the value's string form,
\* for Null the empty sequence, for an Array or Object the value decoded as
\* contents or else an ExecutionError; in both implementations.
C18_AsStated ==
    \A j \in ToolCalls :
        (calls[j].res.via.ct.t # "panic" /\ calls[j].res.via.tr.t = "Ok") =>
            LET v == calls[j].res.via.tr.v
                ct == calls[j].res.via.ct
            IN
                /\ v.t = "Number" => ct = ToolOk(<<text("42")>>)
                /\ v.t = "String" => ct = ToolOk(<<text("hi")>>)
                /\ v.t = "Bool" => ct = ToolOk(<<text("true")>>)
                /\ v.t = "Null" => ct = ToolOk(<<>>)
                /\ (v.t = "Array" /\ v.ok) => ct = ToolOk(<<text("t")>>)
                /\ (v.t \in {"Array", "Object"} /\ ~v.ok) =>
                    (ct.t = "Err" /\ ct.kind = "ExecutionError")

\* C18: the case: the server of server.rs turned a tool's Null into the
\* empty sequence, and its response was written
C18_Witness ==
    \E j \in ToolCalls :
        /\ mcp.impl = "server"
        /\ calls[j].res.via.tr = ToolOk(Value("Null", 0, "", FALSE, FALSE, <<>>))
        /\ \E k \in Written(calls[j].n) : out[k].resp = Success(calls[j].req.id, <<>>)

\* C19 as stated, granting that a write that fails ends run: once the loop
\* is done with a tools/call, exactly one whole line for it is in the
\* writer, with the request's id: the Success with the contents when
\* call_tool returned them, an Error with a message when it failed; and the
\* loop has not been ended by the call.
C19_AsStated ==
    \A j \in ToolCalls :
        (~InHand(j) /\ ~WriteFailed(j)) =>
            /\ run.pc # "panicked"
            /\ Cardinality(Written(calls[j].n)) = 1
            /\ \A k \in Written(calls[j].n) :
                /\ out[k].nl
                /\ out[k].resp.id = calls[j].req.id
                /\ calls[j].res.via.ct.t = "Ok" =>
                    out[k].resp = Success(calls[j].req.id, calls[j].res.via.ct.v)
                /\ calls[j].res.via.ct.t = "Err" =>
                    (out[k].resp.t = "Error" /\ out[k].resp.message # "")

\* C19: the case: a tool failed, the Error response for it was written, and
\* the next request was served
C19_Witness ==
    /\ Len(calls) = 2
    /\ calls[1].req.method = "tools/call"
    /\ calls[1].res.via.tr.t = "Err"
    /\ Len(out) = 2
    /\ out[1].resp.t = "Error"
    /\ out[1].resp.message = "Division by zero"
    /\ out[2].nl

\* ============================= SpecContext ===============================
\* A Context is filled by the builder (with_state), frozen by build, and
\* then read with get and FromContext.

\* values inserted while the context is built
MaxInserts == 3

\* the types of injected state, and the TypeIds a lookup can name: the type
\* itself and its wrapper Inject<T>
StateTypes == {"Counter", "Config"}
WrapperOf(T) == <<"Inject", T>>
\* data::Inject<T>, the wrapper type of the same name defined in data.rs
DataWrapperOf(T) == <<"data::Inject", T>>
TypeIds ==
    {<<"", T>> : T \in StateTypes} \cup {WrapperOf(T) : T \in StateTypes}
        \cup {DataWrapperOf(T) : T \in StateTypes}

\* Inject<T>(Arc<T>): the wrapper of type T over the allocation arc
Inject(T, arc) == [T |-> T, arc |-> arc]
\* Box<dyn Any>: the value with the TypeId of its concrete type; NoBox for
\* a key the map does not hold
Box(tid, arc) == [tid |-> tid, arc |-> arc]
NoBox == Box(<<"", "">>, 0)
EmptyMap == [k \in TypeIds |-> NoBox]

\* Option<&U> and what FromContext gives: Some(reference to the value over
\* allocation arc) | None | the panic
Some(arc) == [t |-> "Some", arc |-> arc]
None == [t |-> "None", arc |-> 0]
Panic == [t |-> "panic", arc |-> 0]

\* Context::insert keyed by the type inside the wrapper
Context_insert_by_inner(map, state) ==
    [map EXCEPT ![<<"", state.T>>] = Box(WrapperOf(state.T), state.arc)]

\* Context::insert(state: Inject<T>): HashMap::insert under the TypeId of
\* Inject<T>, replacing what was there
Context_insert(map, state) ==
    [map EXCEPT ![WrapperOf(state.T)] = Box(WrapperOf(state.T), state.arc)]

\* Context::get::<U>(): the entry under TypeId::of::<U>(), downcast to U
Context_get(map, U) ==
    IF map[U] = NoBox THEN None
    ELSE IF map[U].tid = U THEN Some(map[U].arc)
    ELSE None

\* from_context falling back to Inject::default() for an absent entry
from_context_or_default(map, T) ==
    IF Context_get(map, WrapperOf(T)).t = "Some"
        THEN Some(Context_get(map, WrapperOf(T)).arc)
        ELSE Some(0)

\* <Inject<T> as FromContext>::from_context: a clone of the entry (the same
\* allocation), or the panic
from_context(map, T) ==
    IF Context_get(map, WrapperOf(T)).t = "Some"
        THEN Some(Context_get(map, WrapperOf(T)).arc)
        ELSE Panic

\* <data::Inject<T> as FromContext>::from_context: the same, looked up under
\* the TypeId of data::Inject<T>
data_from_context(map, T) ==
    IF Context_get(map, DataWrapperOf(T)).t = "Some"
        THEN Some(Context_get(map, DataWrapperOf(T)).arc)
        ELSE Panic

NoLookup == [op |-> "none", key |-> <<"", "">>, res |-> None]

InitContext ==
    /\ ClientInit
    /\ input = <<>>
    /\ reader = ReaderInit
    /\ items = [seq |-> <<>>, ended |-> FALSE]
    /\ run = [pc |-> "unused"]
    /\ out = <<>>
    /\ calls = <<>>
    /\ mcp = [impl |-> "none"]
    /\ ctx = [map |-> EmptyMap, built |-> FALSE, log |-> <<>>, got |-> NoLookup]

\* MCPServerBuilder::with_state(Inject::new(state)): a new allocation
with_state(T) ==
    /\ ~ctx.built
    /\ Len(ctx.log) < MaxInserts
    /\ LET state == Inject(T, Len(ctx.log) + 1) IN
        ctx' = [ctx EXCEPT !.map = Context_insert(@, state),
                           !.log = Append(@, state)]
    /\ UNCHANGED <<requests, slots, tp, tlast, pc, msg, result, cslot, handle, ret,
                   nsent, hist, queue, rxOpen, w_pc, cur, a_pc, child, stdout,
                   stderr_text, errq, input, reader, items, run, out, calls, mcp>>

\* MCPServerBuilder::build
build ==
    /\ ~ctx.built
    /\ ctx' = [ctx EXCEPT !.built = TRUE]
    /\ UNCHANGED <<requests, slots, tp, tlast, pc, msg, result, cslot, handle, ret,
                   nsent, hist, queue, rxOpen, w_pc, cur, a_pc, child, stdout,
                   stderr_text, errq, input, reader, items, run, out, calls, mcp>>

\* ctx.get::<U>() on the built server
get(U) ==
    /\ ctx.built
    /\ ctx' = [ctx EXCEPT !.got = [op |-> "get", key |-> U,
                                   res |-> Context_get(ctx.map, U)]]
    /\ UNCHANGED <<requests, slots, tp, tlast, pc, msg, result, cslot, handle, ret,
                   nsent, hist, queue, rxOpen, w_pc, cur, a_pc, child, stdout,
                   stderr_text, errq, input, reader, items, run, out, calls, mcp>>

\* Inject::<T>::from_context(&ctx) on the built server
inject(T) ==
    /\ ctx.built
    /\ ctx' = [ctx EXCEPT !.got = [op |-> "from_context", key |-> WrapperOf(T),
                                   res |-> from_context(ctx.map, T)]]
    /\ UNCHANGED <<requests, slots, tp, tlast, pc, msg, result, cslot, handle, ret,
                   nsent, hist, queue, rxOpen, w_pc, cur, a_pc, child, stdout,
                   stderr_text, errq, input, reader, items, run, out, calls, mcp>>

\* data::Inject::<T>::from_context(&ctx) on the built server
inject_data(T) ==
    /\ ctx.built
    /\ ctx' = [ctx EXCEPT !.got = [op |-> "data_from_context",
                                   key |-> DataWrapperOf(T),
                                   res |-> data_from_context(ctx.map, T)]]
    /\ UNCHANGED <<requests, slots, tp, tlast, pc, msg, result, cslot, handle, ret,
                   nsent, hist, queue, rxOpen, w_pc, cur, a_pc, child, stdout,
                   stderr_text, errq, input, reader, items, run, out, calls, mcp>>

NextContext ==
    \/ \E T \in StateTypes : with_state(T)
    \/ build
    \/ \E U \in TypeIds : get(U)
    \/ \E T \in StateTypes : inject(T)
    \/ \E T \in StateTypes : inject_data(T)

SpecContext == InitContext /\ [][NextContext]_vars

\* --------------------------------------------------- claims on SpecContext
\* the inserts of a value of type Inject<T>, by their position in the log
InsertsOf(T) == {i \in 1..Len(ctx.log) : ctx.log[i].T = T}
LastInsertOf(T) == CHOOSE i \in InsertsOf(T) : \A i2 \in InsertsOf(T) : i2 <= i

\* C20: a get for Inject<T>, and from_context for Inject<T>, after inserts
\* of values of that type, return a handle to the allocation of the last of
\* them (the only one, after one insert); a get for a type of which no value
\* was inserted, the unwrapped T included, returns nothing.
C20_LastInsertWins ==
    ctx.got.op # "none" =>
        /\ \A T \in StateTypes :
            (ctx.got.key = WrapperOf(T) /\ InsertsOf(T) # {}) =>
                ctx.got.res = Some(ctx.log[LastInsertOf(T)].arc)
        /\ (ctx.got.op = "get" /\
                ~\E T \in StateTypes : ctx.got.key = WrapperOf(T) /\ InsertsOf(T) # {}) =>
                    ctx.got.res = None

\* C20: the case: two values of type Inject<Counter> were inserted, and a
\* lookup returned the allocation of the second
C20_Witness ==
    /\ Cardinality(InsertsOf("Counter")) = 2
    /\ ctx.got.key = WrapperOf("Counter")
    /\ ctx.got.op = "from_context"
    /\ ctx.got.res = Some(ctx.log[LastInsertOf("Counter")].arc)


\* C21: a projection of Inject<T> (either definition of it) from a built
\* context ends in the value of an insert of that type or in the panic, and
\* in the panic whenever no value of the type was inserted: the handler
\* that takes the projection never runs on a default or substitute value.
C21_AbsentIsFatal ==
    ctx.got.op \in {"from_context", "data_from_context"} =>
        /\ ctx.got.res.t \in {"Some", "panic"}
        /\ ctx.got.res.t = "Some" =>
            \E i \in InsertsOf(ctx.got.key[2]) : ctx.log[i].arc = ctx.got.res.arc
        /\ InsertsOf(ctx.got.key[2]) = {} => ctx.got.res = Panic

\* C21: the case: a Counter was registered, no Config was, and the
\* projection of Inject<Config> panicked
C21_Witness ==
    /\ InsertsOf("Counter") # {}
    /\ InsertsOf("Config") = {}
    /\ ctx.got.op = "from_context"
    /\ ctx.got.key = WrapperOf("Config")
    /\ ctx.got.res = Panic

\* ============================= SpecCounter ===============================
\* The counter server of examples/servers: one Counter registered with
\* with_state, and the tools increment, decrement and get_value that take it
\* as Inject<Counter>.

\* width of i32 and u32 in bits, scaled down from 32
Bits == 4
\* tool calls made on one server
MaxCalls == 3

i32_MIN == -(2 ^ (Bits - 1))
i32_MAX == 2 ^ (Bits - 1) - 1
u32_MAX == 2 ^ Bits - 1
in_i32(n) == i32_MIN <= n /\ n <= i32_MAX
\* the i32 with the low bits of n (two's complement)
wrapping(n) == ((n - i32_MIN) % (2 ^ Bits)) + i32_MIN
\* `quantity as i32`: the cast keeps the bits
as_i32(quantity) == wrapping(quantity)

\* the result of i32 arithmetic with the exact result n: a panic in a build
\* with overflow checks and the wrapped value in one without, when n is not
\* an i32
Arith(t, n) == [t |-> t, n |-> n]
overflowing(n, overflow_checks) ==
    IF in_i32(n) THEN Arith("Ok", n)
    ELSE IF overflow_checks THEN Arith("panic", 0)
    ELSE Arith("Ok", wrapping(n))

\* Counter::increment, Counter::decrement, Counter::get_value on the value
\* under the Mutex
Counter_increment(counter, quantity, overflow_checks) ==
    overflowing(counter + as_i32(quantity), overflow_checks)
Counter_decrement(counter, quantity, overflow_checks) ==
    overflowing(counter - as_i32(quantity), overflow_checks)
Counter_get_value(counter) == counter

Number(n) == Value("Number", n, "", FALSE, FALSE, <<>>)
Null == Value("Null", 0, "", FALSE, FALSE, <<>>)

\* the quantity arguments of the calls
Quantities == {0, 1, 2, 3, i32_MAX, i32_MAX + 1, u32_MAX}
CounterTools == {"increment", "decrement", "get_value"}

\* main: Counter::default() registered with with_state, the three tools,
\* build; heap holds the value of each allocation
InitCounter ==
    /\ ClientInit
    /\ input = <<>>
    /\ reader = ReaderInit
    /\ items = [seq |-> <<>>, ended |-> FALSE]
    /\ run = [pc |-> "serving"]
    /\ out = <<>>
    /\ calls = <<>>
    /\ mcp \in [impl : {"server"}, tools : {CounterTools}, heap : {<<0>>},
                overflow_checks : BOOLEAN]
    /\ ctx = [map |-> Context_insert(EmptyMap, Inject("Counter", 1)),
              built |-> TRUE, log |-> <<Inject("Counter", 1)>>, got |-> NoLookup]

\* the value of the Counter that Inject<Counter> projects from the context
injected_counter == mcp.heap[from_context(ctx.map, "Counter").arc]

\* a tools/call of a tool that changes the counter: the Counter is
\* projected from the context, r is the outcome of the arithmetic on it, and
\* the tool returns Ok(())
counter_call(tool_name, quantity, r) ==
    /\ run.pc = "serving"
    /\ Len(calls) < MaxCalls
    /\ calls' = Append(calls, [tool |-> tool_name, quantity |-> quantity])
    /\ LET counter == from_context(ctx.map, "Counter")
       IN IF counter.t = "panic" \/ r.t = "panic"
            THEN /\ run' = [pc |-> "panicked"]
                 /\ out' = Append(out, ToolPanic)
                 /\ mcp' = mcp
            ELSE /\ run' = run
                 /\ out' = Append(out, call_tool(mcp, tool_name, ToolOk(Null)))
                 /\ mcp' = [mcp EXCEPT !.heap[counter.arc] = r.n]
    /\ UNCHANGED <<requests, slots, tp, tlast, pc, msg, result, cslot, handle, ret,
                   nsent, hist, queue, rxOpen, w_pc, cur, a_pc, child, stdout,
                   stderr_text, errq, input, reader, items, ctx>>

\* tools/call of increment
increment(quantity) ==
    counter_call("increment", quantity,
                 Counter_increment(injected_counter, quantity, mcp.overflow_checks))

\* tools/call of decrement
decrement(quantity) ==
    counter_call("decrement", quantity,
                 Counter_decrement(injected_counter, quantity, mcp.overflow_checks))

\* tools/call of get_value
get_value ==
    /\ run.pc = "serving"
    /\ Len(calls) < MaxCalls
    /\ calls' = Append(calls, [tool |-> "get_value", quantity |-> 0])
    /\ LET counter == from_context(ctx.map, "Counter")
       IN IF counter.t = "panic"
            THEN /\ run' = [pc |-> "panicked"]
                 /\ out' = Append(out, ToolPanic)
            ELSE /\ run' = run
                 /\ out' = Append(out, call_tool(mcp, "get_value",
                        ToolOk(Number(Counter_get_value(mcp.heap[counter.arc])))))
    /\ UNCHANGED <<requests, slots, tp, tlast, pc, msg, result, cslot, handle, ret,
                   nsent, hist, queue, rxOpen, w_pc, cur, a_pc, child, stdout,
                   stderr_text, errq, input, reader, items, mcp, ctx>>

NextCounter ==
    \/ \E quantity \in Quantities : increment(quantity)
    \/ \E quantity \in Quantities : decrement(quantity)
    \/ get_value

SpecCounter == InitCounter /\ [][NextCounter]_vars

\* -------------------------------------------------- claims on SpecCounter
\* the sum of the increments minus the sum of the decrements among the first
\* k calls
RECURSIVE Balance(_)
Balance(k) ==
    IF k = 0 THEN 0
    ELSE Balance(k - 1) +
        (CASE calls[k].tool = "increment" -> calls[k].quantity
           [] calls[k].tool = "decrement" -> 0 - calls[k].quantity
           [] OTHER -> 0)

\* C22: every get_value call returns, as one text content, the sum of the
\* quantities incremented before it minus the sum of those decremented.
C22_AsStated ==
    \A k \in 1..Len(out) :
        calls[k].tool = "get_value" =>
            out[k] = ToolOk(<<text(ToString(Balance(k)))>>)

\* C22: the case: increment 3, increment 2, get_value gives "5"
C22_Witness ==
    /\ Len(out) = 3
    /\ calls[1] = [tool |-> "increment", quantity |-> 3]
    /\ calls[2] = [tool |-> "increment", quantity |-> 2]
    /\ calls[3].tool = "get_value"
    /\ out[3] = ToolOk(<<text("5")>>)

\* C22 within the range of i32: while every quantity and every running sum
\* is at most i32::MAX in size, get_value returns the balance
C22_InRange ==
    \A k \in 1..Len(out) :
        (/\ calls[k].tool = "get_value"
         /\ \A j \in 1..k : calls[j].quantity <= i32_MAX /\ in_i32(Balance(j))) =>
            out[k] = ToolOk(<<text(ToString(Balance(k)))>>)

\* ============================ SpecCalculator =============================
\* The calculator tool of examples/servers and of examples/
\* server_tool_macros, applied to one (x, y, operation) through call_tool and
\* the router.

\* i32 division: the quotient truncated toward zero
trunc_div(x, y) ==
    IF (x >= 0) = (y > 0) THEN (IF x >= 0 THEN x \div y ELSE (0 - x) \div (0 - y))
    ELSE 0 - ((IF x >= 0 THEN x ELSE 0 - x) \div (IF y > 0 THEN y ELSE 0 - y))

\* x / y on i32, y # 0: i32::MIN / -1 panics in every build
i32_div(x, y) ==
    IF x = i32_MIN /\ y = -1 THEN Arith("panic", 0) ELSE Arith("Ok", trunc_div(x, y))

Operations == {"add", "subtract", "multiply", "divide", "modulo"}

Tool(a) == IF a.t = "panic" THEN ToolPanic ELSE ToolOk(Number(a.n))

\* async fn calculator(x: i32, y: i32, operation: String)
calculator(x, y, operation, overflow_checks) ==
    CASE operation = "add" -> Tool(overflowing(x + y, overflow_checks))
      [] operation = "subtract" -> Tool(overflowing(x - y, overflow_checks))
      [] operation = "multiply" -> Tool(overflowing(x * y, overflow_checks))
      [] operation = "divide" ->
            IF y = 0 THEN ToolErr("ExecutionError", "Division by zero")
            ELSE Tool(i32_div(x, y))
      [] OTHER -> ToolErr("InvalidParameters", "Unknown operation: " \o operation)

\* a server of either implementation with the calculator registered, and the
\* arguments of the one call
InitCalculator ==
    /\ ClientInit
    /\ input = <<>>
    /\ reader = ReaderInit
    /\ items = [seq |-> <<>>, ended |-> FALSE]
    /\ run = [pc |-> "serving"]
    /\ out = <<>>
    /\ calls \in {<<c>> : c \in [x : i32_MIN..i32_MAX, y : i32_MIN..i32_MAX,
                                  operation : Operations]}
    /\ mcp \in [impl : {"server", "common"}, tools : {{"calculator"}},
                overflow_checks : BOOLEAN]
    /\ ctx = [map |-> EmptyMap, built |-> TRUE, log |-> <<>>, got |-> NoLookup]

\* tools/call of calculator with the arguments: the tool's result, and the
\* response the router makes of it
calculate ==
    /\ run.pc = "serving"
    /\ LET a == calls[1]
           tr == calculator(a.x, a.y, a.operation, mcp.overflow_checks)
           res == RouterService_call(mcp, Request("a", "tools/call", "calculator"), tr)
       IN /\ out' = <<res>>
          /\ run' = [pc |-> IF res.t = "panic" THEN "panicked" ELSE "done"]
    /\ UNCHANGED <<requests, slots, tp, tlast, pc, msg, result, cslot, handle, ret,
                   nsent, hist, queue, rxOpen, w_pc, cur, a_pc, child, stdout,
                   stderr_text, errq, input, reader, items, calls, mcp, ctx>>

NextCalculator == calculate

SpecCalculator == InitCalculator /\ [][NextCalculator]_vars

\* ----------------------------------------------- claims on SpecCalculator
\* the value the claim names for an operation on x and y; of x + y, x - y
\* and x * y both readings, the exact integer and the i32 of its low bits
Expected(x, y, operation) ==
    CASE operation = "add" -> {ToolOk(Number(x + y)), ToolOk(Number(wrapping(x + y)))}
      [] operation = "subtract" -> {ToolOk(Number(x - y)), ToolOk(Number(wrapping(x - y)))}
      [] operation = "multiply" -> {ToolOk(Number(x * y)), ToolOk(Number(wrapping(x * y)))}
      [] operation = "divide" /\ y # 0 ->
            {ToolOk(Number(trunc_div(x, y))), ToolOk(Number(wrapping(trunc_div(x, y))))}
      [] operation = "divide" /\ y = 0 ->
            {ToolErr("ExecutionError", "Division by zero")}
      [] OTHER -> {ToolErr("InvalidParameters", "Unknown operation: " \o operation)}

\* C23: for every x, y and operation the call completes with the value the
\* claim names (in either reading of the arithmetic); a number comes back
\* as a Success with one text content, division by zero as an Error
\* response with code INTERNAL_ERROR.
C23_AsStated ==
    out # <<>> =>
        LET a == calls[1] IN
            /\ out[1].t = "Ok"
            /\ out[1].via.tr \in Expected(a.x, a.y, a.operation)
            /\ out[1].via.tr.t = "Ok" =>
                    out[1].resp = Success("a", <<text(ToString(out[1].via.tr.v.n))>>)
            /\ (a.operation = "divide" /\ a.y = 0) =>
                    /\ out[1].resp.t = "Error"
                    /\ out[1].resp.code = "INTERNAL_ERROR"

\* C23: the case: multiply 2, 3 gives the single text content "6"
C23_Witness ==
    /\ out # <<>>
    /\ calls[1] = [x |-> 2, y |-> 3, operation |-> "multiply"]
    /\ out[1].resp = Success("a", <<text("6")>>)

\* C23 without the overflowing arguments: when the exact result is an i32
\* the call completes with the value the claim names
C23_InRange ==
    out # <<>> =>
        LET a == calls[1]
            exact == CASE a.operation = "add" -> a.x + a.y
                       [] a.operation = "subtract" -> a.x - a.y
                       [] a.operation = "multiply" -> a.x * a.y
                       [] a.operation = "divide" /\ a.y # 0 -> trunc_div(a.x, a.y)
                       [] OTHER -> 0
        IN in_i32(exact) =>
            /\ out[1].t = "Ok"
            /\ out[1].via.tr \in Expected(a.x, a.y, a.operation)
            /\ (a.operation = "divide" /\ a.y = 0) =>
                    out[1].resp.code = "INTERNAL_ERROR"
=============================================================================
